---- MODULE Spec2Model ----
(***************************************************************************)
(* State machine of the curseofrust engine: the hex grid and its tiles,    *)
(* the per-player flag grids with their attraction field, Grid::build,     *)
(* the AI kings and State::simulate.                                       *)
(*                                                                         *)
(* Numbers.  The engine rounds with f32; the model uses exact rationals:   *)
(* rnd_round(n/d) is floor(n/d), or floor(n/d)+1 when the fraction is not  *)
(* zero (the random draw decides).  Comparisons of a score with a          *)
(* threshold are done on squared integers.                                 *)
(***************************************************************************)
EXTENDS Integers, Sequences, FiniteSets, TLC

(***************************************************************************)
(* Bounds of the model (the engine's own values are in the comments).      *)
(***************************************************************************)
\* grid width used by the simulation specifications (engine: up to MAX_WIDTH = 40)
GridW == 2
\* grid height used by the simulation specifications (engine: up to MAX_HEIGHT = 29)
GridH == 2
\* number of player slots, slot 0 being NEUTRAL (engine: 8)
MAX_PLAYERS == 6
\* number of State::simulate calls explored from an initial state
MaxTicks == 1
\* number of operations (flag messages, builds, kings_move) explored around the ticks
MaxOps == 1
\* grid width and height of the flag specification
FlagW == 4
FlagH == 2
\* number of flag operations explored by the flag specification
MaxFlagOps == 3
\* number of Grid::build calls explored by the build specification
MaxBuilds == 3
\* grid width and height of the map generation specification
GenW == 7
GenH == 6
\* number of raw maps the generation loop of State::new draws from
GenMaps == 2

\* the width and the height of the arrays of an S2C message (40 and 29 in the source)
MAX_WIDTH == 3

MAX_HEIGHT == 3

\* the number of messages a client program handles
MaxApplies == 3

\* the number of peer addresses that send to the server
MaxPeers == 3

\* the largest client count the server is started with
MaxClients == 2

\* the number of datagrams the peers send to the server
MaxFrames == 4

\* the number of iterations of the server's play loop when no peer sends
PlayLoops == 1760

\* the number of iterations of the server's play loop when peers send
MaxLoops == 3

\* the number of datagrams the peers send to the server in the game
PlayFrames == 3

\* the number of iterations of the client's loop
CliLoops == 110

\* the 10 ms periods counted since the client's last IS_ALIVE
MaxPeriods == 51

\* the number of times a send of the server finds the socket not writable
MaxBlocks == 1

(***************************************************************************)
(* Program constants.                                                      *)
(***************************************************************************)
MAX_POPULATION == 499
FLAG_POWER == 8
PRICE_VILLAGE == 160
PRICE_TOWN == 240
PRICE_FORTRESS == 320
U16 == 65536

NEUTRAL == 0
Players == 0 .. (MAX_PLAYERS - 1)
RealPlayers == 1 .. (MAX_PLAYERS - 1)

Max(a, b) == IF a > b THEN a ELSE b
Min(a, b) == IF a < b THEN a ELSE b

(***************************************************************************)
(* Pos and the six hex directions.                                         *)
(***************************************************************************)
DIRS == << <<-1, 0>>, <<1, 0>>, <<0, -1>>, <<0, 1>>, <<1, -1>>, <<-1, 1>> >>

Pos == (0 .. (GridW - 1)) \X (0 .. (GridH - 1))

PosAdd(pos, dir) == <<pos[1] + dir[1], pos[2] + dir[2]>>

(***************************************************************************)
(* Tiles.  A tile is a record; units and land only mean something on a     *)
(* Habitable tile, owner on a Habitable tile or a Mine.                    *)
(***************************************************************************)
Lands == {"Grassland", "Village", "Town", "Fortress"}

NoUnits == [q \in Players |-> 0]

Void == [kind |-> "Void", land |-> "Grassland", units |-> NoUnits, owner |-> NEUTRAL]
Mountain == [kind |-> "Mountain", land |-> "Grassland", units |-> NoUnits, owner |-> NEUTRAL]
Mine(p) == [kind |-> "Mine", land |-> "Grassland", units |-> NoUnits, owner |-> p]
Habitable(l, u, o) == [kind |-> "Habitable", land |-> l, units |-> u, owner |-> o]

\* Grid::tile — None outside the grid
InGrid(g, pos) == pos \in DOMAIN g

\* The function f written out as a table.  TLC keeps the value of a function
\* constructor as a rule and evaluates the rule again at every application;
\* comparing the function makes it a table of its values.
Tabulated(f) == IF f = f THEN f ELSE f

\* Grid::width and Grid::height of a grid given by its tiles
width(g) == LET xs == {q[1] : q \in DOMAIN g} IN 1 + CHOOSE x \in xs : \A z \in xs : z <= x

height(g) == LET ys == {q[2] : q \in DOMAIN g} IN 1 + CHOOSE y \in ys : \A z \in ys : z <= y

is_habitable(t) == t.kind = "Habitable"

\* Tile::owner — Mine and Habitable carry an owner, the rest report NEUTRAL
TileOwner(t) == IF t.kind \in {"Mine", "Habitable"} THEN t.owner ELSE NEUTRAL

\* Tile::set_owner — no effect on Void and Mountain
set_owner(t, p) == IF t.kind \in {"Mine", "Habitable"} THEN [t EXCEPT !.owner = p] ELSE t

IsHabAt(g, pos) == InGrid(g, pos) /\ is_habitable(g[pos])

\* HabitLand::price
price(l) ==
  CASE l = "Grassland" -> 0
    [] l = "Village" -> PRICE_VILLAGE
    [] l = "Town" -> PRICE_TOWN
    [] l = "Fortress" -> PRICE_FORTRESS

\* HabitLand::upgrade — the next level, "None" on a Fortress
upgrade(l) ==
  CASE l = "Grassland" -> "Village"
    [] l = "Village" -> "Town"
    [] l = "Town" -> "Fortress"
    [] l = "Fortress" -> "None"

\* HabitLand::degrade — the previous level, "None" on Grassland
degrade(l) ==
  CASE l = "Grassland" -> "None"
    [] l = "Village" -> "Grassland"
    [] l = "Town" -> "Village"
    [] l = "Fortress" -> "Town"

\* HabitLand::growth, in tenths
growth10(l) ==
  CASE l = "Village" -> 11
    [] l = "Town" -> 12
    [] l = "Fortress" -> 13
    [] OTHER -> 0

\* rnd_round!(n/d): the integer part, or one more when the fraction is not zero
rnd_round(n, d) == IF n % d = 0 THEN {n \div d} ELSE {n \div d, (n \div d) + 1}

(***************************************************************************)
(* Grid::spread.  uv is the pair of the scratch grid u and the target v.   *)
(***************************************************************************)
RECURSIVE spread(_, _, _, _, _)
RECURSIVE spread_dirs(_, _, _, _, _, _)

\* spread that visits each tile once, with the first value that reaches it
spread_first_visit(g, uv, pos, val, factor) ==
  IF ~IsHabAt(g, pos) THEN uv
  ELSE IF uv.u[pos] = 0 /\ val > 0
       THEN spread_dirs(g,
                        [u |-> [uv.u EXCEPT ![pos] = val],
                         v |-> [uv.v EXCEPT ![pos] = Max(0, @ + val * factor)]],
                        pos, val \div 2, factor, 1)
       ELSE uv

spread(g, uv, pos, val, factor) ==
  IF ~IsHabAt(g, pos) THEN uv
  ELSE LET d == val - uv.u[pos] IN
       IF d > 0
       THEN spread_dirs(g,
                        [u |-> [uv.u EXCEPT ![pos] = @ + d],
                         v |-> [uv.v EXCEPT ![pos] = Max(0, @ + d * factor)]],
                        pos, val \div 2, factor, 1)
       ELSE uv

spread_dirs(g, uv, pos, val, factor, k) ==
  IF k > 6 THEN uv
  ELSE LET rest(r) == IF DOMAIN r.v = {} THEN r ELSE spread_dirs(g, r, pos, val, factor, k + 1)
       IN rest(spread(g, uv, PosAdd(pos, DIRS[k]), val, factor))

ZeroGrid(g) == Tabulated([q \in DOMAIN g |-> 0])

(***************************************************************************)
(* FlagGrid.  A flag grid is [flags : Pos -> BOOLEAN, call : Pos -> Int].  *)
(***************************************************************************)
\* FlagGrid::new
FlagGridNew(g) == [flags |-> [q \in DOMAIN g |-> FALSE], call |-> ZeroGrid(g)]

\* FlagGrid::add
FlagAdd(g, fg, pos, power) ==
  IF ~InGrid(g, pos) \/ ~is_habitable(g[pos]) \/ fg.flags[pos] THEN fg
  ELSE [flags |-> [fg.flags EXCEPT ![pos] = TRUE],
        call |-> spread(g, [u |-> ZeroGrid(g), v |-> fg.call], pos, power, 1).v]

\* FlagGrid::remove clearing the flag and leaving the call grid as it is
FlagRemove_keeps_call(g, fg, pos, power) ==
  IF ~InGrid(g, pos) \/ ~is_habitable(g[pos]) \/ ~fg.flags[pos] THEN fg
  ELSE [flags |-> [fg.flags EXCEPT ![pos] = FALSE], call |-> fg.call]

\* FlagGrid::remove
FlagRemove(g, fg, pos, power) ==
  IF ~InGrid(g, pos) \/ ~is_habitable(g[pos]) \/ ~fg.flags[pos] THEN fg
  ELSE [flags |-> [fg.flags EXCEPT ![pos] = FALSE],
        call |-> spread(g, [u |-> ZeroGrid(g), v |-> fg.call], pos, power, -1).v]

\* the scan order of the nested loops "for i in 0..width { for j in 0..height"
ScanOrder(g) ==
  LET w == width(g)
      h == height(g)
  IN [n \in 1 .. (w * h) |-> <<(n - 1) \div h, (n - 1) % h>>]

\* FlagGrid::remove_with_prob — drop is the set of positions whose draw was <= prob
RECURSIVE remove_with_prob_from(_, _, _, _, _)
remove_with_prob_from(g, fg, drop, order, n) ==
  IF n > Len(order) THEN fg
  ELSE remove_with_prob_from(g,
         IF fg.flags[order[n]] /\ order[n] \in drop
         THEN FlagRemove(g, fg, order[n], FLAG_POWER) ELSE fg,
         drop, order, n + 1)

remove_with_prob(g, fg, drop) == remove_with_prob_from(g, fg, drop, ScanOrder(g), 1)

(***************************************************************************)
(* Grid::build.  The result is [grid, gold, res]; res is "Ok" or the name  *)
(* of the error.  country is the player of the paying Country.             *)
(***************************************************************************)
\* Grid::build asking for more gold than the price
GridBuild_strict_price(g, gold, country, pos) ==
  LET fail(e) == [grid |-> g, gold |-> gold, res |-> e] IN
  IF ~InGrid(g, pos) THEN fail("PosOutOfBound")
  ELSE IF TileOwner(g[pos]) # country THEN fail("NotOwner")
  ELSE IF ~is_habitable(g[pos]) THEN fail("TileNotHabitable")
  ELSE LET l == upgrade(g[pos].land) IN
       IF l = "None" THEN fail("UpgradeTopLevelBuilding")
       ELSE IF gold[country] > price(l)
       THEN [grid |-> [g EXCEPT ![pos].land = l],
             gold |-> [gold EXCEPT ![country] = @ - price(l)],
             res |-> "Ok"]
       ELSE fail("InsufficientGold")

\* Grid::build upgrading the land in place before it looks at the gold
GridBuild_upgrades_in_place(g, gold, country, pos) ==
  LET fail(e) == [grid |-> g, gold |-> gold, res |-> e] IN
  IF ~InGrid(g, pos) THEN fail("PosOutOfBound")
  ELSE IF TileOwner(g[pos]) # country THEN fail("NotOwner")
  ELSE IF ~is_habitable(g[pos]) THEN fail("TileNotHabitable")
  ELSE LET l == upgrade(g[pos].land) IN
       IF l = "None" THEN fail("UpgradeTopLevelBuilding")
       ELSE IF gold[country] >= price(l)
       THEN [grid |-> [g EXCEPT ![pos].land = l],
             gold |-> [gold EXCEPT ![country] = @ - price(l)],
             res |-> "Ok"]
       ELSE [grid |-> [g EXCEPT ![pos].land = l], gold |-> gold, res |-> "InsufficientGold"]

\* Grid::build looking at the kind of the tile before its owner
GridBuild_kind_first(g, gold, country, pos) ==
  LET fail(e) == [grid |-> g, gold |-> gold, res |-> e] IN
  IF ~InGrid(g, pos) THEN fail("PosOutOfBound")
  ELSE IF ~is_habitable(g[pos]) THEN fail("TileNotHabitable")
  ELSE IF TileOwner(g[pos]) # country THEN fail("NotOwner")
  ELSE LET l == upgrade(g[pos].land) IN
       IF l = "None" THEN fail("UpgradeTopLevelBuilding")
       ELSE IF gold[country] >= price(l)
       THEN [grid |-> [g EXCEPT ![pos].land = l],
             gold |-> [gold EXCEPT ![country] = @ - price(l)],
             res |-> "Ok"]
       ELSE fail("InsufficientGold")

GridBuild(g, gold, country, pos) ==
  LET fail(e) == [grid |-> g, gold |-> gold, res |-> e] IN
  IF ~InGrid(g, pos) THEN fail("PosOutOfBound")
  ELSE IF TileOwner(g[pos]) # country THEN fail("NotOwner")
  ELSE IF ~is_habitable(g[pos]) THEN fail("TileNotHabitable")
  ELSE LET l == upgrade(g[pos].land) IN
       IF l = "None" THEN fail("UpgradeTopLevelBuilding")
       ELSE IF gold[country] >= price(l)
       THEN [grid |-> [g EXCEPT ![pos].land = l],
             gold |-> [gold EXCEPT ![country] = @ - price(l)],
             res |-> "Ok"]
       ELSE fail("InsufficientGold")

\* Grid::degrade
GridDegrade(g, pos) ==
  IF IsHabAt(g, pos) /\ degrade(g[pos].land) # "None"
  THEN [g EXCEPT ![pos].land = degrade(g[pos].land)]
  ELSE g

(***************************************************************************)
(* King.  A king is [player, strategy, values : Pos -> Int].               *)
(***************************************************************************)
\* Strategy::habitable_tile_val_addition
habitable_tile_val_addition(st) == IF st = "PersistentGreedy" THEN 2 ELSE 1

\* Strategy::city_spread_val
city_spread_val(st, l) ==
  CASE l = "Fortress" -> (IF st = "Noble" THEN 32 ELSE 16)
    [] l = "Town" -> 8
    [] l = "Village" -> (IF st = "Noble" THEN 2 ELSE 4)
    [] OTHER -> 0

\* Strategy::mine_spread_val
mine_spread_val(st) == IF st = "Midas" THEN 8 ELSE 4

\* Grid::even — the depth-first fill gives val to pos and to every tile it reaches
\* from pos over tiles that do not hold val yet; the tiles reached do not depend
\* on the order of the directions, so the fill is computed ring by ring
RECURSIVE even_region(_, _, _, _)
even_region(v, val, F, R) ==
  IF F = {} THEN R
  ELSE LET F2 == {q \in UNION {{PosAdd(b, DIRS[d]) : d \in 1 .. 6} : b \in F} :
                    q \in DOMAIN v /\ q \notin R /\ v[q] # val}
       IN even_region(v, val, F2, R \cup F2)

even(v, pos, val) ==
  IF pos \notin DOMAIN v \/ v[pos] = val THEN v
  ELSE LET fill(R) == Tabulated([q \in DOMAIN v |-> IF q \in R THEN val ELSE v[q]])
       IN fill(even_region(v, val, {pos}, {pos}))

\* one source of King::evaluate: spread into values, then reset the scratch grid
eval_source(g, uv, pos, val) ==
  LET reset(r) == [u |-> even(r.u, pos, 0), v |-> r.v] IN reset(spread(g, uv, pos, val, 1))

RECURSIVE eval_mine(_, _, _, _, _)
eval_mine(g, uv, pos, st, k) ==
  IF k > 6 THEN uv
  ELSE eval_mine(g, eval_source(g, uv, PosAdd(pos, DIRS[k]), mine_spread_val(st)), pos, st, k + 1)

\* King::evaluate: what one tile of the scan adds
eval_tile(g, uv, st, pos) ==
  CASE g[pos].kind = "Habitable" ->
         eval_source(g, [uv EXCEPT !.v[pos] = @ + habitable_tile_val_addition(st)],
                     pos, city_spread_val(st, g[pos].land))
    [] g[pos].kind = "Mine" -> eval_mine(g, uv, pos, st, 1)
    [] OTHER -> uv

\* King::evaluate: the tiles order[lo] .. order[hi] one after the other; the range is
\* split in two halves so that the evaluation of a long scan stays shallow
RECURSIVE eval_tiles(_, _, _, _, _, _)
eval_tiles(g, uv, st, order, lo, hi) ==
  IF lo > hi THEN uv
  ELSE IF lo = hi THEN eval_tile(g, uv, st, order[lo])
  ELSE LET mid == (lo + hi) \div 2
           rest(r) == IF DOMAIN r.v = {} THEN r ELSE eval_tiles(g, r, st, order, mid + 1, hi)
       IN rest(eval_tiles(g, uv, st, order, lo, mid))

\* King::evaluate on the difficulties that do not blur the values (Normal, Hard, Hardest)
evaluate(g, st) ==
  LET scan_over(order) ==
        eval_tiles(g, [u |-> ZeroGrid(g), v |-> ZeroGrid(g)], st, order, 1, Len(order)).v
  IN scan_over(ScanOrder(g))

\* King::new followed by the evaluate_map of State::new
KingNew(g, pl, st) == [player |-> pl, strategy |-> st, values |-> evaluate(g, st)]

\* the strategies State::new hands out, by position in the kings vector
StrategyAt(n) ==
  CASE n = 0 -> "Opportunist"
    [] n = 1 -> "OneGreedy"
    [] n = 2 -> "Midas"
    [] n = 3 -> "AggrGreedy"
    [] n = 4 -> "Noble"
    [] n = 5 -> "PersistentGreedy"

\* the kings State::new creates: one for each player above the clients
KingsNew(g, clients) ==
  [n \in 1 .. (MAX_PLAYERS - 1 - clients) |-> KingNew(g, clients + n, StrategyAt(n - 1))]

\* the "enemy" signal of the flag policies: units[..pl] + units[pl+1..], slot 0 included
RECURSIVE SumUnits(_, _, _)
SumUnits(u, lo, hi) == IF lo > hi THEN 0 ELSE u[lo] + SumUnits(u, lo + 1, hi)

king_enemy(u, pl) == (SumUnits(u, 0, pl - 1) + SumUnits(u, pl + 1, MAX_PLAYERS - 1)) % U16

\* x * sqrt(army) > t, for integers x, army >= 0 and t > 0
ScoreAbove(x, army, t) == x > 0 /\ army > 0 /\ (x > t \/ x * x > (t * t) \div army)

\* action_opportunist: the test of one tile
opportunist_wants(val, u, pl) ==
  LET army == u[pl]
      enemy == king_enemy(u, pl)
  IN enemy > army /\ ScoreAbove(val * (MAX_POPULATION - enemy + army), army, 7000)

\* action_aggr_greedy: the test of one tile
aggr_greedy_wants(val, u, pl) ==
  LET army == u[pl]
      enemy == king_enemy(u, pl)
  IN ScoreAbove(val * (2 * enemy - army), army, 5000)

\* the loop shared by action_aggr_greedy and action_opportunist: add or remove per tile
RECURSIVE flag_each(_, _, _, _, _)
flag_each(g, king, fg, order, n) ==
  IF n > Len(order) THEN fg
  ELSE LET pos == order[n]
           t == g[pos]
           wants == IF king.strategy = "Opportunist"
                    THEN opportunist_wants(king.values[pos], t.units, king.player)
                    ELSE aggr_greedy_wants(king.values[pos], t.units, king.player)
       IN flag_each(g, king,
            IF ~is_habitable(t) THEN fg
            ELSE IF wants THEN FlagAdd(g, fg, pos, FLAG_POWER)
            ELSE FlagRemove(g, fg, pos, FLAG_POWER),
            order, n + 1)

\* natural numbers beyond the machine word: little-endian digits in base 1000
RECURSIVE BigOf(_)
BigOf(n) == IF n = 0 THEN <<>> ELSE <<n % 1000>> \o BigOf(n \div 1000)

\* the product of a big number and m, 0 <= m < 2000000
RECURSIVE BigMulFrom(_, _, _, _)
BigMulFrom(b, m, k, carry) ==
  IF k > Len(b) THEN BigOf(carry)
  ELSE LET x == b[k] * m + carry IN <<x % 1000>> \o BigMulFrom(b, m, k + 1, x \div 1000)

BigMul(b, m) == IF m = 0 THEN <<>> ELSE BigMulFrom(b, m, 1, 0)

RECURSIVE BigGreaterFrom(_, _, _)
BigGreaterFrom(a, b, k) ==
  IF k = 0 THEN FALSE
  ELSE IF a[k] # b[k] THEN a[k] > b[k]
  ELSE BigGreaterFrom(a, b, k - 1)

BigGreater(a, b) == IF Len(a) # Len(b) THEN Len(a) > Len(b) ELSE BigGreaterFrom(a, b, Len(a))

\* x1 * sqrt(a1) > x2 * sqrt(a2) for positive x1, x2
ScoreGreater(x1, a1, x2, a2) ==
  BigGreater(BigMul(BigMul(BigOf(x1), x1), a1), BigMul(BigMul(BigOf(x2), x2), a2))

\* action_one_greedy: the factor of sqrt(army) in the score of one tile
one_greedy_x(val, u, pl) == val * (5 * king_enemy(u, pl) - u[pl])

\* action_one_greedy: the scan; best is <<>> until a tile scores above 5000
RECURSIVE one_greedy_scan(_, _, _, _, _, _)
one_greedy_scan(g, king, fg, order, n, best) ==
  IF n > Len(order) THEN [fg |-> fg, best |-> best]
  ELSE LET pos == order[n]
           t == g[pos]
           fg1 == IF fg.flags[pos] THEN FlagRemove(g, fg, pos, FLAG_POWER) ELSE fg
           x == one_greedy_x(king.values[pos], t.units, king.player)
           army == t.units[king.player]
           better == /\ is_habitable(t)
                     /\ ScoreAbove(x, army, 5000)
                     /\ \/ best = <<>>
                        \/ ScoreGreater(x, army,
                                        one_greedy_x(king.values[best], g[best].units, king.player),
                                        g[best].units[king.player])
       IN one_greedy_scan(g, king, fg1, order, n + 1, IF better THEN pos ELSE best)

\* action_one_greedy adding its flag to the flags it found
action_one_greedy_keeps_flags(g, king, fg) ==
  LET r == one_greedy_scan(g, king, fg, ScanOrder(g), 1, <<>>) IN
  IF r.best # <<>> THEN FlagAdd(g, fg, r.best, FLAG_POWER) ELSE fg

action_one_greedy(g, king, fg) ==
  LET r == one_greedy_scan(g, king, fg, ScanOrder(g), 1, <<>>) IN
  IF r.best # <<>> THEN FlagAdd(g, r.fg, r.best, FLAG_POWER) ELSE r.fg

\* b * m * m * ... with n factors m
RECURSIVE BigTimesPow(_, _, _)
BigTimesPow(b, m, n) == IF n = 0 THEN b ELSE BigTimesPow(BigMul(b, m), m, n - 1)

\* half * army^0.7 > 2 * t, for the doubled factor half of a score and t > 0
PowScoreAbove(half, army, t) ==
  /\ half > 0
  /\ army > 0
  /\ BigGreater(BigTimesPow(BigTimesPow(<<1>>, half, 10), army, 7), BigTimesPow(<<1>>, 2 * t, 10))

\* half * army^0.7 < 2 * t
PowScoreBelow(half, army, t) ==
  \/ half <= 0
  \/ army = 0
  \/ BigGreater(BigTimesPow(<<1>>, 2 * t, 10), BigTimesPow(BigTimesPow(<<1>>, half, 10), army, 7))

\* action_persistent_greedy: twice the factor of army^0.7 in the score of one
\* tile, the larger of val * (2.5 * enemy - army) and
\* val * (MAX_POPULATION - enemy + army)
persistent_half(val, u, pl) ==
  Max(val * (5 * king_enemy(u, pl) - 2 * u[pl]), 2 * val * (MAX_POPULATION - king_enemy(u, pl) + u[pl]))

\* action_persistent_greedy with one threshold: a flag that is not above
\* 9000 is removed
RECURSIVE persistent_each_one_threshold(_, _, _, _, _)
persistent_each_one_threshold(g, king, fg, order, n) ==
  IF n > Len(order) THEN fg
  ELSE LET pos == order[n]
           t == g[pos]
           half == persistent_half(king.values[pos], t.units, king.player)
           army == t.units[king.player]
       IN persistent_each_one_threshold(g, king,
            IF ~is_habitable(t) THEN fg
            ELSE IF PowScoreAbove(half, army, 9000) THEN FlagAdd(g, fg, pos, FLAG_POWER)
            ELSE FlagRemove(g, fg, pos, FLAG_POWER),
            order, n + 1)

\* action_persistent_greedy: remove a flag below 1000, else add one above 9000
RECURSIVE persistent_each(_, _, _, _, _)
persistent_each(g, king, fg, order, n) ==
  IF n > Len(order) THEN fg
  ELSE LET pos == order[n]
           t == g[pos]
           half == persistent_half(king.values[pos], t.units, king.player)
           army == t.units[king.player]
       IN persistent_each(g, king,
            IF ~is_habitable(t) THEN fg
            ELSE IF fg.flags[pos] /\ PowScoreBelow(half, army, 1000) THEN FlagRemove(g, fg, pos, FLAG_POWER)
            ELSE IF PowScoreAbove(half, army, 9000) THEN FlagAdd(g, fg, pos, FLAG_POWER)
            ELSE fg,
            order, n + 1)

\* MAX_PRIORITY and LEN of action_noble
MAX_PRIORITY == 32

NOBLE_LEN == 5

\* PosVal::new
posval_new ==
  [locs |-> [k \in 0 .. (NOBLE_LEN - 1) |-> <<-1, -1>>],
   vals |-> [k \in 0 .. (NOBLE_LEN - 1) |-> -1],
   panic |-> FALSE]

\* PosVal::insert: the position of the first value below vx, or
\* N.min(MAX_PRIORITY)
posval_position(pv, vx) ==
  LET S == {k \in 0 .. (NOBLE_LEN - 1) : pv.vals[k] < vx}
  IN IF S = {} THEN Min(NOBLE_LEN, MAX_PRIORITY) ELSE CHOOSE k \in S : \A j \in S : k <= j

\* PosVal::insert: how many slots the zip of the reversed iterators writes.
\* li is locs[i + 1..] reversed less its first element, vi is vals reversed
\* less its first element; the slots are written from the last one down
posval_pairs(i) == Min(Max(NOBLE_LEN - (i + 1) - 1, 0), NOBLE_LEN - 1)

\* PosVal::insert; the slice locs[i + 1..] panics when i + 1 is beyond the
\* length of the array
posval_insert(pv, lx, vx) ==
  LET i == posval_position(pv, vx)
      moved(a, k) == IF k = i THEN (IF a = "locs" THEN lx ELSE vx)
                     ELSE IF k > NOBLE_LEN - 1 - posval_pairs(i) THEN pv[a][k - 1]
                     ELSE pv[a][k]
  IN IF pv.panic \/ i >= MAX_PRIORITY THEN pv
     ELSE IF i + 1 > NOBLE_LEN THEN [pv EXCEPT !.panic = TRUE]
     ELSE [locs |-> [k \in 0 .. (NOBLE_LEN - 1) |-> moved("locs", k)],
           vals |-> [k \in 0 .. (NOBLE_LEN - 1) |-> moved("vals", k)],
           panic |-> FALSE]

\* sqrt of an army that is a perfect square, where f32 is exact
exact_sqrt(a) == CHOOSE r \in 0 .. 255 : r * r = a

\* action_noble: the score of one tile as i32
noble_v(val, u, pl) == val * (MAX_POPULATION - king_enemy(u, pl) + u[pl]) * exact_sqrt(u[pl])

\* action_noble: the scan that fills the priority list
RECURSIVE noble_scan(_, _, _, _, _)
noble_scan(g, king, pv, order, n) ==
  IF n > Len(order) THEN pv
  ELSE LET pos == order[n]
           t == g[pos]
           army == t.units[king.player]
           enemy == king_enemy(t.units, king.player)
       IN noble_scan(g, king,
            IF is_habitable(t) /\ enemy > army
               /\ ScoreAbove(king.values[pos] * (MAX_POPULATION - enemy + army), army, 7000)
            THEN posval_insert(pv, pos, noble_v(king.values[pos], t.units, king.player))
            ELSE pv,
            order, n + 1)

\* action_noble: the flags added for the entries of the list, up to the
\* first value that is not positive
RECURSIVE noble_add(_, _, _, _)
noble_add(g, fg, pv, k) ==
  IF k > NOBLE_LEN - 1 \/ pv.vals[k] <= 0 THEN fg
  ELSE noble_add(g, FlagAdd(g, fg, pv.locs[k], FLAG_POWER), pv, k + 1)

\* action_noble panics inside PosVal::insert
noble_panics(g, king) == noble_scan(g, king, posval_new, ScanOrder(g), 1).panic

action_noble(g, king, fg) == noble_add(g, fg, noble_scan(g, king, posval_new, ScanOrder(g), 1), 0)

\* King::place_flags
place_flags(g, king, fg) ==
  CASE king.strategy \in {"AggrGreedy", "Opportunist"} -> flag_each(g, king, fg, ScanOrder(g), 1)
    [] king.strategy = "OneGreedy" -> action_one_greedy(g, king, fg)
    [] king.strategy = "PersistentGreedy" -> persistent_each(g, king, fg, ScanOrder(g), 1)
    [] king.strategy = "Noble" -> action_noble(g, king, fg)
    [] OTHER -> fg

\* King::build scoring every tile of the king's player, whoever owns the
\* tiles around it
king_build_score_any_neighbours(g, king, pos) ==
  LET t == g[pos]
      base0 == CASE t.land = "Grassland" -> 1
                 [] t.land = "Village" -> 8
                 [] t.land = "Town" -> 32
                 [] OTHER -> 0
      base == IF king.strategy = "Midas" THEN base0 * (king.values[pos] + 10) ELSE base0
  IN IF is_habitable(t) /\ TileOwner(t) = king.player
     THEN base * (MAX_POPULATION - t.units[king.player]) ELSE 0

\* King::build: the score of one tile
king_build_score(g, king, pos) ==
  LET t == g[pos]
      ok == /\ TileOwner(t) = king.player
            /\ is_habitable(t)
            /\ \A k \in 1 .. 6 :
                 IsHabAt(g, PosAdd(pos, DIRS[k])) => TileOwner(g[PosAdd(pos, DIRS[k])]) = king.player
      base0 == CASE t.land = "Grassland" -> 1
                 [] t.land = "Village" -> 8
                 [] t.land = "Town" -> 32
                 [] OTHER -> 0
      base == IF king.strategy = "Midas" THEN base0 * (king.values[pos] + 10) ELSE base0
  IN IF is_habitable(t) /\ ok THEN base * (MAX_POPULATION - t.units[king.player]) ELSE 0

\* King::build: the first tile of the scan with the best score, <<>> when no score is positive
RECURSIVE king_build_best(_, _, _, _, _, _)
king_build_best(g, king, order, n, best, v_best) ==
  IF n > Len(order) THEN best
  ELSE LET v == king_build_score(g, king, order[n]) IN
       IF v > v_best THEN king_build_best(g, king, order, n + 1, order[n], v)
       ELSE king_build_best(g, king, order, n + 1, best, v_best)

\* King::build: the result of Grid::build on the chosen tile, or no change
KingBuild(g, gold, king) ==
  LET best == king_build_best(g, king, ScanOrder(g), 1, <<>>, 0) IN
  IF best = <<>> THEN [grid |-> g, gold |-> gold, res |-> "None"]
  ELSE GridBuild(g, gold, king.player, best)

\* State::kings_move: the fold over the kings, then the re-evaluation when something was built
RECURSIVE kings_move_from(_, _)
kings_move_from(s, n) ==
  IF n > Len(s.kings) THEN s
  ELSE LET king == s.kings[n]
           fg == place_flags(s.grid, king, s.fgs[king.player])
           b == KingBuild(s.grid, s.gold, king)
       IN kings_move_from([grid |-> b.grid,
                           fgs |-> [s.fgs EXCEPT ![king.player] = fg],
                           gold |-> b.gold,
                           kings |-> s.kings,
                           ev |-> s.ev \/ b.res = "Ok"], n + 1)

reevaluate(g, ks) == [n \in DOMAIN ks |-> [ks[n] EXCEPT !.values = evaluate(g, ks[n].strategy)]]

kings_move(g, f, gd, ks) ==
  LET r == kings_move_from([grid |-> g, fgs |-> f, gold |-> gd, kings |-> ks, ev |-> FALSE], 1)
  IN [grid |-> r.grid, fgs |-> r.fgs, gold |-> r.gold,
      kings |-> IF r.ev THEN reevaluate(r.grid, r.kings) ELSE r.kings]

(***************************************************************************)
(* State::simulate, phase by phase.                                        *)
(***************************************************************************)
\* the fold taking a NEUTRAL neighbour for a second owner
RECURSIVE mine_owner_fold_counts_neutral(_, _, _, _, _)
mine_owner_fold_counts_neutral(g, pos, order, k, cur) ==
  IF k > Len(order) THEN cur
  ELSE LET nb == PosAdd(pos, DIRS[order[k]]) IN
       mine_owner_fold_counts_neutral(g, pos, order, k + 1,
         IF ~IsHabAt(g, nb) THEN cur
         ELSE LET pl == TileOwner(g[nb]) IN
              IF cur = NEUTRAL THEN pl
              ELSE IF cur # pl THEN -1
              ELSE cur)

\* mines ownership: the fold over the neighbours, -1 standing for None
RECURSIVE mine_owner_fold(_, _, _, _, _)
mine_owner_fold(g, pos, order, k, cur) ==
  IF k > Len(order) THEN cur
  ELSE LET nb == PosAdd(pos, DIRS[order[k]]) IN
       mine_owner_fold(g, pos, order, k + 1,
         IF ~IsHabAt(g, nb) THEN cur
         ELSE LET pl == TileOwner(g[nb]) IN
              IF cur = NEUTRAL THEN pl
              ELSE IF cur # pl /\ pl # NEUTRAL THEN -1
              ELSE cur)

\* the owner a Mine gets: the fold in the order of Pos::DIRS, None becoming NEUTRAL
mine_owner(g, pos) ==
  LET o == mine_owner_fold(g, pos, <<1, 2, 3, 4, 5, 6>>, 1, NEUTRAL) IN
  IF o = -1 THEN NEUTRAL ELSE o

\* sim_mine without the is_neutral test on the payment
sim_mine_pays_neutral(g, gd, pos) ==
  LET o == mine_owner(g, pos) IN
  [grid |-> [g EXCEPT ![pos] = set_owner(@, o)],
   gold |-> [gd EXCEPT ![o] = @ + 1],
   reeval |-> FALSE]

\* the Mine branch of the tile loop
sim_mine(g, gd, pos) ==
  LET o == mine_owner(g, pos) IN
  [grid |-> [g EXCEPT ![pos] = set_owner(@, o)],
   gold |-> IF o # NEUTRAL THEN [gd EXCEPT ![o] = @ + 1] ELSE gd,
   reeval |-> FALSE]

\* "Determine ownership": the first player with the strictly largest population
RECURSIVE owner_scan(_, _, _, _)
owner_scan(u, p, o, o_unit) ==
  IF p > MAX_PLAYERS - 1 THEN o
  ELSE IF u[p] > o_unit THEN owner_scan(u, p + 1, p, u[p])
  ELSE owner_scan(u, p + 1, o, o_unit)

determine_owner(u) == owner_scan(u, 1, NEUTRAL, 0)

\* enemy_pops: total_pop - p on u16, wrapping where the build does not check overflow
enemy_pops(u) == [q \in Players |-> (u[0] - u[q]) % U16]

\* the subtraction total_pop - p overflows for some slot
combat_overflows(u) == \E q \in Players : u[q] > u[0]

\* the damage vectors the random rounding can produce
combat_dmgs(u) ==
  LET total == u[0]
      en == enemy_pops(u)
      lo == [q \in RealPlayers |-> IF total # 0 THEN (en[q] * u[q]) \div total ELSE 0]
      frac == [q \in RealPlayers |-> total # 0 /\ (en[q] * u[q]) % total # 0]
  IN {[q \in RealPlayers |-> lo[q] + b[q]] :
        b \in {c \in [RealPlayers -> {0, 1}] : \A q \in RealPlayers : c[q] = 1 => frac[q]}}

\* combat, burning, ownership and growth of one Habitable tile: the tiles it can become
sim_habitable_tile(t) ==
  UNION {
    LET u1 == [q \in Players |-> IF q = 0 THEN t.units[0] ELSE Max(t.units[q] - dmg[q], 0)]
        defender_dmg == IF t.owner # NEUTRAL THEN dmg[t.owner] ELSE 0
        burns == IF defender_dmg >= 100 /\ t.land # "Grassland" THEN {TRUE, FALSE} ELSE {FALSE}
    IN UNION {
         LET land == IF burn THEN degrade(t.land) ELSE t.land
             owner == determine_owner(u1)
         IN IF land # "Grassland"
            THEN {[tile |-> Habitable(land,
                                      [u1 EXCEPT ![owner] = Min(npop % U16, MAX_POPULATION)],
                                      owner),
                   reeval |-> burn] : npop \in rnd_round(u1[owner] * growth10(land), 10)}
            ELSE {[tile |-> Habitable(land, u1, owner), reeval |-> burn]}
         : burn \in burns}
    : dmg \in combat_dmgs(t.units)}

\* the Habitable branch of the tile loop
sim_habitable(g, gd, pos) ==
  {[grid |-> [g EXCEPT ![pos] = r.tile], gold |-> gd, reeval |-> r.reeval] :
     r \in sim_habitable_tile(g[pos])}

\* one iteration of the tile loop
sim_tile(g, gd, pos) ==
  CASE g[pos].kind = "Mine" -> {sim_mine(g, gd, pos)}
    [] g[pos].kind = "Habitable" -> sim_habitable(g, gd, pos)
    [] OTHER -> {[grid |-> g, gold |-> gd, reeval |-> FALSE]}

\* migrate_dir without the clamp to the room left in the neighbour
migrate_dir_unclamped(g, fg, pos, p, initial_pop, dir) ==
  LET nb == PosAdd(pos, dir) IN
  IF ~IsHabAt(g, nb) THEN {g}
  ELSE LET pop == g[pos].units[p]
           dcall == Max(fg.call[nb] - fg.call[pos], 0)
       IN {LET dpop == Min(r, pop)
               g1 == [g EXCEPT ![nb].units[p] = Max(@ + dpop, 0) % U16]
           IN IF is_habitable(g[pos])
              THEN [g1 EXCEPT ![pos].units[p] = Max(@ - dpop, 0)]
              ELSE g1
           : r \in rnd_round(initial_pop * (1 + 2 * dcall), 20)}

\* migrate_dir moving the MOVE share only, whatever the call of the flags
migrate_dir_without_call(g, fg, pos, p, initial_pop, dir) ==
  LET nb == PosAdd(pos, dir) IN
  IF ~IsHabAt(g, nb) THEN {g}
  ELSE LET pop == g[pos].units[p]
           room == (MAX_POPULATION - g[nb].units[p]) % U16
       IN {LET dpop == Min(Min(r, pop), room)
               g1 == [g EXCEPT ![nb].units[p] = Max(@ + dpop, 0) % U16]
           IN IF is_habitable(g[pos])
              THEN [g1 EXCEPT ![pos].units[p] = Max(@ - dpop, 0)]
              ELSE g1
           : r \in rnd_round(initial_pop, 20)}

\* migrate_dir without the clamp to what the tile still holds
migrate_dir_overdrawn(g, fg, pos, p, initial_pop, dir) ==
  LET nb == PosAdd(pos, dir) IN
  IF ~IsHabAt(g, nb) THEN {g}
  ELSE LET dcall == Max(fg.call[nb] - fg.call[pos], 0)
           room == (MAX_POPULATION - g[nb].units[p]) % U16
       IN {LET dpop == Min(r, room)
               g1 == [g EXCEPT ![nb].units[p] = Max(@ + dpop, 0) % U16]
           IN IF is_habitable(g[pos])
              THEN [g1 EXCEPT ![pos].units[p] = Max(@ - dpop, 0)]
              ELSE g1
           : r \in rnd_round(initial_pop * (1 + 2 * dcall), 20)}

\* migration of player p from pos towards one neighbour
migrate_dir(g, fg, pos, p, initial_pop, dir) ==
  LET nb == PosAdd(pos, dir) IN
  IF ~IsHabAt(g, nb) THEN {g}
  ELSE LET pop == g[pos].units[p]
           dcall == Max(fg.call[nb] - fg.call[pos], 0)
           room == (MAX_POPULATION - g[nb].units[p]) % U16
       IN {LET dpop == Min(Min(r, pop), room)
               g1 == [g EXCEPT ![nb].units[p] = Max(@ + dpop, 0) % U16]
           IN IF is_habitable(g[pos])
              THEN [g1 EXCEPT ![pos].units[p] = Max(@ - dpop, 0)]
              ELSE g1
           : r \in rnd_round(initial_pop * (1 + 2 * dcall), 20)}

RECURSIVE migrate_dirs(_, _, _, _, _, _, _)
migrate_dirs(g, fg, pos, p, initial_pop, k_shift, k) ==
  IF k > 5 THEN {g}
  ELSE UNION {migrate_dirs(g1, fg, pos, p, initial_pop, k_shift, k + 1) :
                g1 \in migrate_dir(g, fg, pos, p, initial_pop, DIRS[((k + k_shift) % 6) + 1])}

\* migration of player p out of pos: one iteration of "for p in 1..MAX_PLAYERS"
migrate(g, fg, pos, p) ==
  UNION {migrate_dirs(g, fg, pos, p, g[pos].units[p], k_shift, 0) : k_shift \in 0 .. 5}

\* migration out of pos for every player in turn: one iteration of the scan
RECURSIVE migrate_players(_, _, _, _)
migrate_players(g, f, pos, p) ==
  IF p > MAX_PLAYERS - 1 THEN {g}
  ELSE UNION {migrate_players(g1, f, pos, p + 1) : g1 \in migrate(g, f[p], pos, p)}

\* final_ownership without the refresh of the units[0] cache
final_ownership_stale_total(g) ==
  [q \in DOMAIN g |->
     IF is_habitable(g[q])
     THEN Habitable(g[q].land, g[q].units, determine_owner(g[q].units))
     ELSE g[q]]

\* "Determine ownership again": owner and the units[0] cache of every Habitable tile
final_ownership(g) ==
  [q \in DOMAIN g |->
     IF is_habitable(g[q])
     THEN LET u == [g[q].units EXCEPT ![0] = SumUnits(g[q].units, 1, MAX_PLAYERS - 1) % U16]
          IN Habitable(g[q].land, u, determine_owner(u))
     ELSE g[q]]

\* "Give gold to AI on hard difficulties"
add_gold(diff) ==
  CASE diff = "Hard" -> 1
    [] diff = "Hardest" -> 2
    [] OTHER -> 0

\* the subsidy without the test against the controlled player
subsidy_pays_controlled(gd, diff, ctl) ==
  [q \in Players |->
     IF add_gold(diff) > 0 /\ q >= 1 /\ gd[q] > 0 THEN gd[q] + add_gold(diff) ELSE gd[q]]

subsidy(gd, diff, ctl) ==
  [q \in Players |->
     IF add_gold(diff) > 0 /\ q >= 1 /\ q # ctl /\ gd[q] > 0 THEN gd[q] + add_gold(diff) ELSE gd[q]]

(***************************************************************************)
(* Map generation: Stencil::apply, Grid::conflict, Grid::is_connected.     *)
(* Coordinates are taken on grids wide enough that the u32 expressions of  *)
(* Stencil::apply do not go below zero and every tile Grid::conflict       *)
(* writes lies inside the grid.                                            *)
(***************************************************************************)
\* Stencil::max_locs
max_locs(shape) == IF shape = "Hex" THEN 6 ELSE 4

\* the locations Stencil::apply writes into locs
stencil_locs(shape, w, h, d) ==
  LET dx == h \div 2 IN
  CASE shape = "Rhombus" ->
         << <<d, d>>, <<w - 1 - d, h - 1 - d>>, <<d, d>>, <<w - 1 - d, h - 1 - d>> >>
    [] shape = "Rect" ->
         << <<dx + d - 1, d>>, <<w - dx - 1 - d + 1, h - 1 - d>>,
            <<d + 1, h - 1 - d>>, <<w - 1 - d - 1, d>> >>
    [] shape = "Hex" ->
         << <<dx + d - 2, d>>, <<d, h - 1 - d>>, <<w - 1 - d, dx>>, <<d, dx>>,
            <<w - 1 - d - 2 + 2, d>>, <<w - 1 - dx - d + 2, h - 1 - d>> >>

\* the tiles Stencil::apply turns into Void; for Rect, x = 0.5 j + i against
\* x0 = 0.5 (h - 1) - 0.1 and x1 = (w - 1) + 0.1, on doubled integers
stencil_void(shape, w, h, q) ==
  LET dx == h \div 2 IN
  CASE shape = "Rhombus" -> FALSE
    [] shape = "Rect" -> 2 * q[1] + q[2] < h - 1 \/ 2 * q[1] + q[2] > 2 * (w - 1)
    [] shape = "Hex" -> q[1] + q[2] < dx \/ q[1] + q[2] > w - 1 + h - 1 - dx

\* Stencil::apply: the grid it leaves
stencil_apply(shape, g) ==
  LET w == width(g)
      h == height(g)
  IN Tabulated([q \in DOMAIN g |-> IF stencil_void(shape, w, h, q) THEN Void ELSE g[q]])

\* Tile::set_habitable
set_habitable(t, land) ==
  IF t.kind = "Habitable" THEN [t EXCEPT !.land = land] ELSE Habitable(land, NoUnits, NEUTRAL)

\* Grid::conflict, "Remove all cities"
remove_cities(g) ==
  Tabulated([q \in DOMAIN g |-> IF is_habitable(g[q]) THEN Habitable("Grassland", NoUnits, NEUTRAL) ELSE g[q]])

\* Grid::conflict: the Fortress of one location and the mines in direction dir of it
place_loc(g, loc, dir) ==
  LET g1 == [g EXCEPT ![loc] = set_habitable(@, "Fortress")]
      g2 == [g1 EXCEPT ![<<loc[1] + dir[1], loc[2] + dir[2]>>] = Mine(NEUTRAL)]
      g3 == [g2 EXCEPT ![<<loc[1] - 2 * dir[1], loc[2] - 2 * dir[2]>>] = Mine(NEUTRAL)]
  IN [g3 EXCEPT ![<<loc[1] - dir[1], loc[2] - dir[2]>>] = Habitable("Grassland", NoUnits, NEUTRAL)]

\* the loop over chosen_locs; dirs[i] is the direction drawn for location i
RECURSIVE place_locs(_, _, _, _)
place_locs(g, chosen, dirs, i) ==
  IF i > Len(chosen) THEN g
  ELSE place_locs(place_loc(g, chosen[i], DIRS[dirs[i]]), chosen, dirs, i + 1)

\* the distance eval_locs starts every tile with
FarAway == 40 * 29 + 1

\* the habitable tiles next to the tiles of R that are not in seen
habitable_ring(g, R, seen) ==
  {q \in UNION {{PosAdd(b, DIRS[k]) : k \in 1 .. 6} : b \in R} : IsHabAt(g, q) /\ q \notin seen}

\* Grid::floodfill_closest from loc with value val.  The depth-first search
\* rewrites a tile whenever it arrives with a smaller distance, so it ends
\* with the tiles whose shortest habitable path from loc is shorter than the
\* distance they held, whatever the order of the directions; the model walks
\* the rings of equal distance.
RECURSIVE floodfill_rings(_, _, _, _, _, _)
floodfill_rings(g, ud, R, seen, val, dist) ==
  IF R = {} THEN ud
  ELSE LET ring(take) ==
             floodfill_rings(g,
                             [u |-> Tabulated([q \in DOMAIN g |-> IF q \in take THEN val ELSE ud.u[q]]),
                              d |-> Tabulated([q \in DOMAIN g |-> IF q \in take THEN dist ELSE ud.d[q]])],
                             habitable_ring(g, take, seen \cup R), seen \cup R, val, dist + 1)
       IN ring({q \in R : ud.d[q] > dist})

floodfill_closest(g, ud, loc, val) ==
  floodfill_rings(g, ud, {q \in {loc} : IsHabAt(g, q)}, {}, val, 0)

\* (100.0 * (MAX_WIDTH + MAX_HEIGHT) * exp(-10.0 * prod / (MAX_WIDTH * MAX_HEIGHT))) as i32,
\* tabulated for prod = 0, 1, 2, ...
ExpTable ==
  <<
     6900, 6840, 6782, 6723, 6666, 6608, 6552, 6495, 6440, 6384, 6330, 6275, 6221, 6168, 6115, 6063,
     6010, 5959, 5908, 5857, 5807, 5757, 5707, 5658, 5610, 5562, 5514, 5467, 5420, 5373, 5327, 5281,
     5236, 5191, 5147, 5102, 5059, 5015, 4972, 4929, 4887, 4845, 4804, 4762, 4721, 4681, 4641, 4601,
     4561, 4522, 4483, 4445, 4407, 4369, 4331, 4294, 4257, 4221, 4185, 4149, 4113, 4078, 4043, 4008,
     3974, 3939, 3906, 3872, 3839, 3806, 3773, 3741, 3709, 3677, 3645, 3614, 3583, 3552, 3522, 3492,
     3462, 3432, 3402, 3373, 3344, 3316, 3287, 3259, 3231, 3203, 3176, 3148, 3121, 3095, 3068, 3042,
     3016, 2990, 2964, 2939, 2913, 2888, 2863, 2839, 2815, 2790, 2766, 2743, 2719, 2696, 2673, 2650,
     2627, 2604, 2582, 2560, 2538, 2516, 2494, 2473, 2452, 2431, 2410, 2389, 2369, 2348, 2328, 2308,
     2288, 2269, 2249, 2230, 2211, 2192, 2173, 2154, 2136, 2118, 2099, 2081, 2063, 2046, 2028, 2011,
     1993, 1976, 1959, 1943, 1926, 1909, 1893, 1877, 1861, 1845, 1829, 1813, 1798, 1782, 1767, 1752,
     1737, 1722, 1707, 1692, 1678, 1663, 1649, 1635, 1621, 1607, 1593, 1579, 1566, 1552, 1539, 1526,
     1513, 1500, 1487, 1474, 1461, 1449, 1436, 1424, 1412, 1400, 1388, 1376, 1364, 1352, 1341, 1329,
     1318, 1306, 1295, 1284, 1273, 1262, 1251, 1241, 1230, 1219, 1209, 1199, 1188, 1178, 1168, 1158,
     1148, 1138, 1128, 1119, 1109, 1100, 1090, 1081, 1071, 1062, 1053, 1044, 1035, 1026, 1017, 1009,
     1000, 991, 983, 974, 966, 958, 950, 941, 933, 925, 917, 909, 902, 894, 886, 879,
     871, 864, 856, 849, 842, 834, 827, 820, 813, 806, 799, 792, 785, 779, 772, 765,
     759
  >>

exp_score(prod) == ExpTable[prod + 1]

\* eval_locs: the u and d arrays after the floodfill_closest of every location;
\* u holds the index of a location counted from 0, -1 is UNREACHABLE
RECURSIVE closest_all(_, _, _, _)
closest_all(g, ud, locs, i) ==
  IF i > Len(locs) THEN ud
  ELSE closest_all(g, floodfill_closest(g, ud, locs[i], i - 1), locs, i + 1)

\* eval_locs: the loop over the habitable neighbours of one mine, acc = [so, mx, mn]
\* with so = -1 for UNREACHABLE and -2 for COMPETITION
RECURSIVE mine_neighbours(_, _, _, _, _)
mine_neighbours(g, ud, m, acc, k) ==
  IF k > 6 THEN acc
  ELSE LET q == PosAdd(m, DIRS[k]) IN
       IF ~IsHabAt(g, q) THEN mine_neighbours(g, ud, m, acc, k + 1)
       ELSE LET dd == ud.d[q]
                uu == ud.u[q]
                nxt == IF acc.so = -1 THEN [so |-> uu, mx |-> dd, mn |-> dd]
                       ELSE IF uu = acc.so THEN [acc EXCEPT !.mx = Max(@, dd), !.mn = Min(@, dd)]
                       ELSE IF uu # -1 THEN [acc EXCEPT !.so = -2]
                       ELSE acc
            IN mine_neighbours(g, ud, m, nxt, k + 1)

RECURSIVE sum_scores(_, _, _, _)
sum_scores(g, ud, mines, i) ==
  IF mines = {} THEN 0
  ELSE LET m == CHOOSE q \in mines : TRUE
           score(acc) == IF acc.so = i THEN exp_score(acc.mx * acc.mn) ELSE 0
       IN score(mine_neighbours(g, ud, m, [so |-> -1, mx |-> 0, mn |-> FarAway], 1))
            + sum_scores(g, ud, mines \ {m}, i)

\* Grid::eval_locs: result[i] for the locations counted from 0
eval_locs(g, locs) ==
  LET ud0 == [u |-> [q \in DOMAIN g |-> -1], d |-> [q \in DOMAIN g |-> FarAway]]
      result(ud, mines) == Tabulated([i \in 0 .. (Len(locs) - 1) |-> sum_scores(g, ud, mines, i)])
  IN result(closest_all(g, ud0, locs, 1), {q \in DOMAIN g : g[q].kind = "Mine"})

\* loc_index[..num].sort_by_key(|i| eval_result[*i]), a stable sort
loc_index(ev, num) ==
  LET before(a, b) == ev[a] < ev[b] \/ (ev[a] = ev[b] /\ a < b)
  IN [i \in 1 .. num |->
        CHOOSE k \in 0 .. (num - 1) : Cardinality({m \in 0 .. (num - 1) : before(m, k)}) = i - 1]

\* the sum of two big numbers
RECURSIVE BigAddFrom(_, _, _, _)
BigAddFrom(a, b, k, carry) ==
  IF k > Len(a) /\ k > Len(b) THEN BigOf(carry)
  ELSE LET x == (IF k <= Len(a) THEN a[k] ELSE 0) + (IF k <= Len(b) THEN b[k] ELSE 0) + carry
       IN <<x % 1000>> \o BigAddFrom(a, b, k + 1, x \div 1000)

BigAdd(a, b) == BigAddFrom(a, b, 1, 0)

BigSquare(n) == BigMul(BigOf(n), n)

\* eval_result.into_iter().sum::<i32>() over the scores of the num locations;
\* the other entries of the array are 0
RECURSIVE score_sum(_, _)
score_sum(ev, n) == IF n = 0 THEN 0 ELSE ev[n - 1] + score_sum(ev, n - 1)

\* num^2 times the sum of (val - avg)^2 over the first n scores
RECURSIVE dev_squares(_, _, _)
dev_squares(ev, num, n) ==
  IF n = 0 THEN <<>>
  ELSE LET a == num * ev[n - 1] - score_sum(ev, num)
       IN BigAdd(BigSquare(IF a < 0 THEN -a ELSE a), dev_squares(ev, num, n - 1))

\* "var.sqrt() * 1000.0 / avg" is below T, the variance being the sum of
\* (val - avg)^2 over slots entries, num scores and slots - num zeros,
\* divided by num: 10^6 * num^2 * sum of squares < T^2 * sum^2 * num.  The
\* comparison is exact where the source rounds to f32.
x_below(ev, num, slots, T) ==
  LET sum == score_sum(ev, num)
      squares == BigAdd(dev_squares(ev, num, num), BigMul(BigSquare(sum), slots - num))
  IN BigGreater(BigMul(BigMul(BigSquare(sum), T * T), num), BigMul(squares, 1000000))

\* the arm of the matches! that "x as i32" falls in: ..=50, 51..=100,
\* 101..=250, 251..=500, 501..; with avg = 0 x is NaN and "x as i32" is 0
x_bucket(ev, num, slots) ==
  IF score_sum(ev, num) = 0 \/ x_below(ev, num, slots, 51) THEN 0
  ELSE IF x_below(ev, num, slots, 101) THEN 1
  ELSE IF x_below(ev, num, slots, 251) THEN 2
  ELSE IF x_below(ev, num, slots, 501) THEN 3
  ELSE 4

\* the gate taking the variance over the num scores alone
ineq_gate_over_num(ev, num, ineq) == ~ineq.some \/ ineq.k = x_bucket(ev, num, num)

\* Grid::conflict, "if let Some(ineq) = ineq": the variance runs over the
\* seven entries of eval_result
ineq_gate(ev, num, ineq) == ~ineq.some \/ ineq.k = x_bucket(ev, num, 7)

\* Grid::conflict: one round of the loop that hands the locations out
assign_loc(g, loc, p) ==
  LET t == set_owner(g[loc], p)
      owner == TileOwner(t)
  IN [g EXCEPT ![loc] = IF t.kind = "Habitable" THEN [t EXCEPT !.units[owner] = 10] ELSE t]

\* the loop: index[i] is handed to owners[i]
RECURSIVE assign_locs(_, _, _, _, _)
assign_locs(g, chosen, index, owners, i) ==
  IF i > Len(index) THEN g
  ELSE assign_locs(assign_loc(g, chosen[index[i] + 1], owners[i]), chosen, index, owners, i + 1)

\* Grid::conflict; the draws of fastrand are
\*   di        the offset into locs
\*   dirs      the direction of the mines of each location
\*   sh_comp   the shuffled computer players
\*   split     the point where sh_comp is split
\*   sh        the shuffled first num players of sh_players
\*   ihuman    the location of the human when no conditions are given
\* "num - c as usize" is taken as a build without overflow checks takes it:
\* below zero it wraps to a value above num - 1
conflict(g0, locs, locs_num, players, ui_players, conditions, ineq, di, dirs, sh_comp, sh, ihuman_rnd) ==
  LET g1 == remove_cities(g0)
      ln == IF locs_num < 2 THEN 2 ELSE IF locs_num > Len(locs) THEN Len(locs) ELSE locs_num
      num == Min(ln, Len(players) + Len(ui_players))
      chosen == [i \in 1 .. num |-> locs[((i - 1 + di) % Len(locs)) + 1]]
      ihuman(index) ==
        IF conditions.some
        THEN index[(IF conditions.c > num THEN num - 1 ELSE Min(num - conditions.c, num - 1)) + 1]
        ELSE ihuman_rnd
      owners(index) == [i \in 1 .. num |->
                          IF Len(ui_players) > 1 THEN sh[i]
                          ELSE IF index[i] = ihuman(index) THEN ui_players[1]
                          ELSE sh_comp[i]]
      assign(g2, index) == assign_locs(g2, chosen, index, owners(index), 1)
      evaluated(g2, ev) ==
        IF ineq_gate(ev, num, ineq)
        THEN [grid |-> assign(g2, loc_index(ev, num)), res |-> "Ok", chosen |-> chosen, scores |-> ev]
        ELSE [grid |-> g2, res |-> "ConflictDiffOutOfBound", chosen |-> chosen, scores |-> ev]
      placed(g2) == evaluated(g2, eval_locs(g2, chosen))
  IN placed(place_locs(g1, chosen, dirs, 1))

\* the tiles Grid::floodfill colours from the tiles of R
RECURSIVE floodfill(_, _, _)
floodfill(g, R, seen) ==
  IF R = {} THEN seen ELSE floodfill(g, habitable_ring(g, R, seen \cup R), seen \cup R)

\* Grid::is_connected answering true for every map
is_connected_any_map(g) == TRUE

\* Grid::is_connected: every owned tile is coloured by the floodfill of the first one
is_connected(g) ==
  LET coloured(order, owned, m) == \A i \in owned : order[i] \in m
      from(order, owned, first) ==
        coloured(order, owned, floodfill(g, {q \in {first} : is_habitable(g[q])}, {}))
      scan(order, owned) ==
        owned = {} \/ from(order, owned, order[CHOOSE i \in owned : \A k \in owned : i <= k])
      tiles(order) == scan(order, {i \in 1 .. Len(order) : TileOwner(g[order[i]]) # NEUTRAL})
  IN tiles(ScanOrder(g))

(***************************************************************************)
(* The state of a running game.                                            *)
(*   grid        Grid.tiles                                                *)
(*   fgs         State.fgs, one flag grid per player                       *)
(*   kings       State.kings                                               *)
(*   gold        Country.gold of State.countries                           *)
(*   time        State.time, counted from the value State::new drew        *)
(*   difficulty  State.difficulty                                          *)
(*   controlled  State.controlled                                          *)
(*   clients     BasicOpts.clients, the number of human players            *)
(*   pc          where State::simulate stands: phase and tile index        *)
(*   need_to_reeval, scan   locals of State::simulate                      *)
(*   simulated   a State::simulate has completed on this state             *)
(*   ticks, ops  the number of simulate calls and of other operations      *)
(*   last        the last operation applied, with its result; was_empty    *)
(*               says the flag grid it worked on held no flag before it,   *)
(*               undoes that it is the remove of the flag the operation    *)
(*               before it added to an empty flag grid                     *)
(*   gold0       the gold the running simulate started from                *)
(*   grid0       the grid the running simulate started from                *)
(*   timeline    State.timeline                                            *)
(*   rng         the state of fastrand's process-wide generator            *)
(***************************************************************************)
VARIABLES grid, fgs, kings, gold, time, difficulty, controlled, clients,
          pc, need_to_reeval, scan, simulated, ticks, ops, last, gold0, grid0,
          timeline, rng

(***************************************************************************)
(* The state around the game: the server, its clients and the network.     *)
(*   speed       State.speed                                               *)
(*   cl          the server's Vec<ClientRecord>                            *)
(*   srv         the server's main task: where it stands, its locals       *)
(*               (requested client count, loop counter time, spawn counter *)
(*               c) and counters of what it has done                       *)
(*   tasks       the detached tasks of the server's LocalExecutor          *)
(*   sock        the server's socket: datagrams waiting to be read, the    *)
(*               readiness the reactor has reported, what the peers may    *)
(*               still send                                                *)
(*   client      the State of a client program and the result of its last  *)
(*               apply_s2c_msg                                             *)
(*   cli         the client's run loop: counter, init flag, position       *)
(***************************************************************************)
VARIABLES speed, cl, srv, tasks, sock, client, cli

vars == <<grid, fgs, kings, gold, time, difficulty, controlled, clients, speed, cl, srv, tasks, sock, client, cli,
          pc, need_to_reeval, scan, simulated, ticks, ops, last, gold0, grid0, timeline, rng>>

\* no server, no client program and no network: a local game
NoServer ==
  /\ speed = "Normal"
  /\ cl = <<>>
  /\ srv = [at |-> "off"]
  /\ tasks = {}
  /\ sock = [inbox |-> <<>>]

NoNet == NoServer /\ client = [at |-> "off"] /\ cli = [at |-> "off"]

Idle == [ph |-> "idle", n |-> 1]
NoOp == [op |-> "none", player |-> 0, pos |-> <<0, 0>>, res |-> "Ok", was_empty |-> FALSE, undoes |-> FALSE]

\* units of a tile: slot 0, player 1, player 2, player 3, nobody else
UnitsOf(total, a, b, c) ==
  [q \in Players |-> CASE q = 0 -> total [] q = 1 -> a [] q = 2 -> b [] q = 3 -> c [] OTHER -> 0]

Grass == Habitable("Grassland", NoUnits, NEUTRAL)

\* a grid from its four corner tiles; the tiles beyond them are empty Grassland
GridOf(t00, t10, t01, t11) ==
  [q \in Pos |->
     CASE q = <<0, 0>> -> t00
       [] q = <<1, 0>> -> t10
       [] q = <<0, 1>> -> t01
       [] q = <<1, 1>> -> t11
       [] OTHER -> Grass]

GoldOf(a, b, c) == [q \in Players |-> CASE q = 1 -> a [] q = 2 -> b [] q = 3 -> c [] OTHER -> 0]

\* what Grid::conflict leaves on a starting location: a Fortress, 10 units of its owner, slot 0 untouched
StartFortress(p) == Habitable("Fortress", [NoUnits EXCEPT ![p] = 10], p)

(***************************************************************************)
(* Initial states.  Fresh ones are shaped as State::new leaves a map:      *)
(* Fortresses with 10 units of their owner, everything else neutral and    *)
(* empty.  The others are states of a game under way: every population is  *)
(* within MAX_POPULATION, slot 0 holds the sum and the owner is the        *)
(* largest population, as the last simulate left them.                     *)
(***************************************************************************)
Scenarios ==
  { [grid |-> GridOf(StartFortress(1), Mine(NEUTRAL), Grass, StartFortress(2)),
     gold |-> GoldOf(0, 0, 0), difficulty |-> "Normal", simulated |-> FALSE],
    [grid |-> GridOf(StartFortress(1), Mine(NEUTRAL), Grass, Mountain),
     gold |-> GoldOf(0, 0, 0), difficulty |-> "Hard", simulated |-> FALSE],
    [grid |-> GridOf(Habitable("Fortress", UnitsOf(499, 499, 0, 0), 1),
                     Habitable("Town", UnitsOf(500, 250, 250, 0), 1),
                     Habitable("Grassland", UnitsOf(498, 498, 0, 0), 1),
                     Mine(2)),
     gold |-> GoldOf(159, 160, 0), difficulty |-> "Hardest", simulated |-> TRUE],
    [grid |-> GridOf(Habitable("Village", UnitsOf(2, 1, 1, 0), 1),
                     Mine(NEUTRAL),
                     Habitable("Grassland", UnitsOf(3, 0, 0, 3), 3),
                     Void),
     gold |-> GoldOf(160, 0, 0), difficulty |-> "Normal", simulated |-> TRUE],
    [grid |-> GridOf(Habitable("Grassland", UnitsOf(20, 0, 20, 0), 2),
                     Habitable("Town", UnitsOf(110, 10, 100, 0), 2),
                     Habitable("Village", UnitsOf(30, 0, 30, 0), 2),
                     Mine(2)),
     gold |-> GoldOf(400, 250, 0), difficulty |-> "Hard", simulated |-> TRUE] }

\* Timeline::MAX_MARKS, the length of the arrays of a Timeline
MAX_MARKS == 4

\* the indices of the arrays data[p] and time of a Timeline
Marks == 0 .. (MAX_MARKS - 1)

\* the Timeline State::new builds at the time drawn
timeline_new(t) ==
  [data |-> [p \in 0 .. (MAX_PLAYERS - 1) |-> [i \in Marks |-> 0]],
   time |-> [i \in Marks |-> t],
   mark |-> 0]

\* Tile::units: the populations of a habitable tile, zeros for the others
tile_units(t) == IF is_habitable(t) THEN t.units ELSE [q \in 0 .. (MAX_PLAYERS - 1) |-> 0]

\* the population of p a Timeline records: the sum over the arrays of
\* raw_tiles of their u16 sums
RECURSIVE column_units(_, _, _, _)
column_units(g, p, x, S) ==
  IF S = {} THEN 0
  ELSE LET q == CHOOSE q \in S : TRUE
       IN (IF q[1] = x THEN tile_units(g[q])[p] ELSE 0) + column_units(g, p, x, S \ {q})

RECURSIVE recorded_units(_, _, _)
recorded_units(g, p, X) ==
  IF X = {} THEN 0
  ELSE LET x == CHOOSE x \in X : TRUE
       IN (column_units(g, p, x, DOMAIN g) % U16) + recorded_units(g, p, X \ {x})

\* the shift loop of Timeline::update, "for i in 0..MAX_MARKS", reads slot
\* i + 1 and writes slot i: it stops at the first i whose i + 1 is no index
\* of the arrays, where the indexing panics
shift_stop == LET bad == {i \in 0 .. (MAX_MARKS - 1) : (i + 1) \notin Marks}
              IN IF bad = {} THEN MAX_MARKS ELSE CHOOSE i \in bad : \A j \in bad : i <= j

timeline_shift(tl) ==
  [tl EXCEPT !.time = [i \in Marks |-> IF i < shift_stop THEN tl.time[i + 1] ELSE tl.time[i]],
             !.data = [p \in 0 .. (MAX_PLAYERS - 1) |->
                         [i \in Marks |-> IF i < shift_stop THEN tl.data[p][i + 1] ELSE tl.data[p][i]]]]

\* Timeline::update: the timeline after it, and whether it panicked on the way
timeline_update(tl, t, g) ==
  IF tl.mark + 1 < MAX_MARKS
  THEN [tl |-> [data |-> [p \in 0 .. (MAX_PLAYERS - 1) |->
                            [tl.data[p] EXCEPT ![tl.mark + 1] =
                               recorded_units(g, p, {q[1] : q \in DOMAIN g})]],
                time |-> [tl.time EXCEPT ![tl.mark + 1] = t],
                mark |-> tl.mark + 1],
        panic |-> FALSE]
  ELSE IF shift_stop < MAX_MARKS
       THEN [tl |-> timeline_shift(tl), panic |-> TRUE]
       ELSE [tl |-> [data |-> [p \in 0 .. (MAX_PLAYERS - 1) |->
                                 [timeline_shift(tl).data[p] EXCEPT ![tl.mark] =
                                    recorded_units(g, p, {q[1] : q \in DOMAIN g})]],
                     time |-> [timeline_shift(tl).time EXCEPT ![tl.mark] = t],
                     mark |-> tl.mark],
             panic |-> FALSE]

\* the State of a game with cn human players between two operations, with flag grids f
GameFrom(s, f, cn) ==
  /\ grid = s.grid
  /\ fgs = f
  /\ clients = cn
  /\ kings = KingsNew(s.grid, cn)
  /\ gold = s.gold
  /\ time = 0
  /\ difficulty = s.difficulty
  /\ controlled = 1
  /\ pc = Idle
  /\ need_to_reeval = FALSE
  /\ scan = <<1, 1>>
  /\ simulated = s.simulated
  /\ ticks = 0
  /\ ops = 0
  /\ last = NoOp
  /\ gold0 = [q \in Players |-> 0]
  /\ grid0 = <<>>
  /\ timeline = timeline_new(time)
  /\ rng = 0

\* a local game with one human player
InitFrom(s, f) == GameFrom(s, f, 1) /\ NoNet

\* the same with the flag grids of FlagGrid::new
InitWith(s) == InitFrom(s, [q \in Players |-> FlagGridNew(s.grid)])

Init == \E s \in Scenarios : InitWith(s)

(***************************************************************************)
(* State::simulate as a sequence of steps; nothing else runs in between.   *)
(***************************************************************************)
SimBegin ==
  /\ pc.ph = "idle"
  /\ ticks < MaxTicks
  /\ time' = time + 1
  /\ need_to_reeval' = FALSE
  /\ pc' = [ph |-> "tiles", n |-> 1]
  /\ last' = [NoOp EXCEPT !.op = "simulate"]
  /\ gold0' = gold
  /\ grid0' = grid
  /\ UNCHANGED <<timeline, rng>>
  /\ UNCHANGED <<grid, fgs, kings, gold, difficulty, controlled, clients, speed, cl, srv, tasks, sock, client, cli, scan, simulated, ticks, ops>>

\* the tile the first loop stands on
CurTile == ScanOrder(grid)[pc.n]

SimTile ==
  /\ pc.ph = "tiles"
  /\ \E r \in sim_tile(grid, gold, CurTile) :
       /\ grid' = r.grid
       /\ gold' = r.gold
       /\ need_to_reeval' = (need_to_reeval \/ r.reeval)
  /\ pc' = IF pc.n < Len(ScanOrder(grid)) THEN [pc EXCEPT !.n = @ + 1]
           ELSE [ph |-> "scan", n |-> 1]
  /\ UNCHANGED <<fgs, kings, time, difficulty, controlled, clients, speed, cl, srv, tasks, sock, client, cli, scan, simulated, ticks, ops, last, gold0, grid0, timeline, rng>>

\* a build with overflow checks aborts on "total_pop - p" below zero
SimPanic ==
  /\ pc.ph = "tiles"
  /\ is_habitable(grid[CurTile])
  /\ combat_overflows(grid[CurTile].units)
  /\ pc' = [pc EXCEPT !.ph = "panic"]
  /\ UNCHANGED <<grid, fgs, kings, gold, time, difficulty, controlled, clients, speed, cl, srv, tasks, sock, client, cli,
                 need_to_reeval, scan, simulated, ticks, ops, last, gold0, grid0, timeline, rng>>

\* the two draws that fix the direction of the migration scan
SimScan ==
  /\ pc.ph = "scan"
  /\ \E i_inc \in {1, -1}, j_inc \in {1, -1} : scan' = <<i_inc, j_inc>>
  /\ pc' = [ph |-> "migrate", n |-> 1]
  /\ UNCHANGED <<grid, fgs, kings, gold, time, difficulty, controlled, clients, speed, cl, srv, tasks, sock, client, cli,
                 need_to_reeval, simulated, ticks, ops, last, gold0, grid0, timeline, rng>>

\* the n-th tile of the migration scan
MigrateTile(g, sc, n) ==
  LET o == ScanOrder(g)
      last_t == o[Len(o)]
      t == o[n]
  IN <<IF sc[1] = 1 THEN t[1] ELSE last_t[1] - t[1],
       IF sc[2] = 1 THEN t[2] ELSE last_t[2] - t[2]>>

SimMigrate ==
  /\ pc.ph = "migrate"
  /\ \E g1 \in migrate_players(grid, fgs, MigrateTile(grid, scan, pc.n), 1) : grid' = g1
  /\ pc' = IF pc.n < Len(ScanOrder(grid)) THEN [pc EXCEPT !.n = @ + 1]
           ELSE [ph |-> "final", n |-> 1]
  /\ UNCHANGED <<fgs, kings, gold, time, difficulty, controlled, clients, speed, cl, srv, tasks, sock, client, cli,
                 need_to_reeval, scan, simulated, ticks, ops, last, gold0, grid0, timeline, rng>>

SimFinal ==
  /\ pc.ph = "final"
  /\ grid' = final_ownership(grid)
  /\ kings' = IF need_to_reeval THEN reevaluate(grid', kings) ELSE kings
  /\ gold' = subsidy(gold, difficulty, controlled)
  /\ pc' = Idle
  /\ simulated' = TRUE
  /\ ticks' = ticks + 1
  /\ gold0' = [q \in Players |-> 0]
  /\ grid0' = <<>>
  /\ UNCHANGED <<timeline, rng>>
  /\ UNCHANGED <<fgs, time, difficulty, controlled, clients, speed, cl, srv, tasks, sock, client, cli, need_to_reeval, scan, ops, last>>

\* State::simulate
Simulate == SimBegin \/ SimTile \/ SimPanic \/ SimScan \/ SimMigrate \/ SimFinal

(***************************************************************************)
(* The operations between two ticks.                                       *)
(***************************************************************************)
OpFrame == UNCHANGED <<time, difficulty, controlled, clients, speed, cl, srv, tasks, sock, client, cli, pc, need_to_reeval, scan, simulated, ticks, gold0, grid0, timeline, rng>>

\* a position outside the grid
OutPos(g) == <<Len(ScanOrder(g)), 0>>

\* State::kings_move
KingsMoveOp ==
  /\ LET r == kings_move(grid, fgs, gold, kings) IN
       /\ grid' = r.grid
       /\ fgs' = r.fgs
       /\ gold' = r.gold
       /\ kings' = r.kings
  /\ ops' = ops + 1
  /\ last' = [NoOp EXCEPT !.op = "kings_move"]
  /\ OpFrame

\* Grid::build for the country of player p
BuildOp(p, pos) ==
  /\ LET r == GridBuild(grid, gold, p, pos) IN
       /\ grid' = r.grid
       /\ gold' = r.gold
       /\ last' = [op |-> "build", player |-> p, pos |-> pos, res |-> r.res, was_empty |-> FALSE, undoes |-> FALSE]
  /\ ops' = ops + 1
  /\ UNCHANGED <<fgs, kings>>
  /\ OpFrame

\* a flag operation of player p leaves everything but that player's flag grid alone
FlagOp(p, fg, op, pos) ==
  /\ fgs' = [fgs EXCEPT ![p] = fg]
  /\ last' = [op |-> op, player |-> p, pos |-> pos, res |-> "Ok",
              was_empty |-> \A q \in DOMAIN grid : ~fgs[p].flags[q],
              undoes |-> /\ op = "flag_off"
                         /\ last.op = "flag_on"
                         /\ last.player = p
                         /\ last.pos = pos
                         /\ last.was_empty]
  /\ ops' = ops + 1
  /\ UNCHANGED <<grid, kings, gold>>
  /\ OpFrame

FlagOnOp(p, pos) == FlagOp(p, FlagAdd(grid, fgs[p], pos, FLAG_POWER), "flag_on", pos)

FlagOffOp(p, pos) == FlagOp(p, FlagRemove(grid, fgs[p], pos, FLAG_POWER), "flag_off", pos)

\* remove_with_prob(1.0): every draw is <= 1.0
FlagOffAllOp(p) == FlagOp(p, remove_with_prob(grid, fgs[p], DOMAIN grid), "flag_off_all", <<0, 0>>)

\* remove_with_prob(0.5): any set of draws can be <= 0.5
FlagOffHalfOp(p) ==
  \E drop \in SUBSET {q \in DOMAIN grid : fgs[p].flags[q]} :
    FlagOp(p, remove_with_prob(grid, fgs[p], drop), "flag_off_half", <<0, 0>>)

CanOperate == pc.ph = "idle" /\ ops < MaxOps

KingsMove == CanOperate /\ KingsMoveOp

\* the local player's build, or BUILD of apply_c2s_msg
Build == CanOperate /\ \E p \in 1 .. clients, pos \in DOMAIN grid \cup {OutPos(grid)} : BuildOp(p, pos)

\* FLAG_ON
FlagOn == CanOperate /\ \E p \in 1 .. clients, pos \in DOMAIN grid \cup {OutPos(grid)} : FlagOnOp(p, pos)

\* FLAG_OFF
FlagOff == CanOperate /\ \E p \in 1 .. clients, pos \in DOMAIN grid \cup {OutPos(grid)} : FlagOffOp(p, pos)

\* FLAG_OFF_ALL
FlagOffAll == CanOperate /\ \E p \in 1 .. clients : FlagOffAllOp(p)

\* FLAG_OFF_HALF
FlagOffHalf == CanOperate /\ \E p \in 1 .. clients : FlagOffHalfOp(p)

Next == Simulate \/ KingsMove \/ Build \/ FlagOn \/ FlagOff \/ FlagOffAll \/ FlagOffHalf

Spec == Init /\ [][Next]_vars

(***************************************************************************)
(* Grid::build on its own: every country, the neutral one included, calls  *)
(* it on every tile of a map that holds each kind of tile, with the gold   *)
(* of player 1 around the three prices.                                    *)
(***************************************************************************)
BuildGolds == {159, 160, 240, 320, 720}

BuildScenarios ==
  {[grid |-> GridOf(Habitable(l, IF o = NEUTRAL THEN NoUnits ELSE [NoUnits EXCEPT ![0] = 5, ![o] = 5], o),
                    Mountain, Mine(m), Void),
    gold |-> GoldOf(gd, 400, 0), difficulty |-> "Normal", simulated |-> TRUE]
     : l \in Lands, o \in 0 .. 2, m \in 0 .. 2, gd \in BuildGolds}

InitBuild == \E s \in BuildScenarios : InitWith(s)

BuildAny ==
  /\ pc.ph = "idle"
  /\ ops < MaxBuilds
  /\ \E p \in Players, pos \in DOMAIN grid \cup {OutPos(grid)} : BuildOp(p, pos)

NextBuild == BuildAny

SpecBuild == InitBuild /\ [][NextBuild]_vars

\* the step is a call of Grid::build
BuildStep == ops' = ops + 1 /\ last'.op = "build"

\* the level after l and what it costs, as the rules of the game state them
NextLevel(l) == CASE l = "Grassland" -> "Village" [] l = "Village" -> "Town" [] l = "Town" -> "Fortress"

LevelPrice(l) == CASE l = "Village" -> 160 [] l = "Town" -> 240 [] l = "Fortress" -> 320

\* the call is made by the owner of a habitable tile
OwnerBuilds ==
  /\ BuildStep
  /\ InGrid(grid, last'.pos)
  /\ is_habitable(grid[last'.pos])
  /\ grid[last'.pos].owner = last'.player

\* C6: Grid::build by the owner of a habitable tile upgrades the land one
\* step and subtracts the price of the new level (160, 240, 320) when the gold
\* suffices, fails with InsufficientGold when it does not, and fails with
\* UpgradeTopLevelBuilding on a Fortress.
C6_BuildUpgrades ==
  [][OwnerBuilds =>
       LET pos == last'.pos
           p == last'.player
           l == grid[pos].land
       IN IF l = "Fortress" THEN last'.res = "UpgradeTopLevelBuilding"
          ELSE IF gold[p] >= LevelPrice(NextLevel(l))
          THEN /\ last'.res = "Ok"
               /\ grid' = [grid EXCEPT ![pos].land = NextLevel(l)]
               /\ gold' = [gold EXCEPT ![p] = @ - LevelPrice(NextLevel(l))]
          ELSE last'.res = "InsufficientGold"]_vars

\* a Village was bought with exactly 160 gold, leaving 0
C6_Witness ==
  /\ last.op = "build"
  /\ last.res = "Ok"
  /\ gold[last.player] = 0
  /\ grid[last.pos].land = "Village"

\* C7: a Grid::build that returns an error leaves the grid and the gold of
\* every country as they were.
C7_BuildErrorNoChange ==
  [][(BuildStep /\ last'.res # "Ok") => (grid' = grid /\ gold' = gold)]_vars

\* a build was refused for want of gold after an earlier one went through
C7_Witness ==
  /\ last.op = "build"
  /\ last.res = "InsufficientGold"
  /\ ops >= 2
  /\ grid[last.pos].land # "Grassland"

\* the call aims at a Mountain, a Mine or Void inside the grid
BuildOnWaste ==
  /\ BuildStep
  /\ InGrid(grid, last'.pos)
  /\ grid[last'.pos].kind \in {"Mountain", "Mine", "Void"}

\* C8 as stated: Grid::build on a Mountain, a Mine or Void fails with
\* TileNotHabitable, whoever calls.
C8_AsStated ==
  [][BuildOnWaste => last'.res = "TileNotHabitable"]_vars

\* C8, amended: Grid::build on a Mountain, a Mine or Void fails and changes
\* nothing; the error is TileNotHabitable when the caller is the player
\* Tile::owner gives for the tile (the owner of a Mine, NEUTRAL for Mountain
\* and Void) and NotOwner for every other caller.
C8_WasteRefused ==
  [][BuildOnWaste =>
       /\ last'.res = (IF TileOwner(grid[last'.pos]) = last'.player
                       THEN "TileNotHabitable" ELSE "NotOwner")
       /\ grid' = grid
       /\ gold' = gold]_vars

\* a player was told NotOwner on a Mountain
C8_Witness ==
  /\ last.op = "build"
  /\ last.res = "NotOwner"
  /\ last.player # NEUTRAL
  /\ InGrid(grid, last.pos)
  /\ grid[last.pos].kind = "Mountain"

(***************************************************************************)
(* The flag operations on their own, on maps of FlagW x FlagH tiles: two   *)
(* armies that make the kings of players 2 and 3 plant flags, and up to    *)
(* two tiles taken out of the land (Mountain or Mine), which can cut a     *)
(* tile off.  The king of player 3 may start with a flag planted earlier.  *)
(***************************************************************************)
FlagPos == (0 .. (FlagW - 1)) \X (0 .. (FlagH - 1))

FlagCorner == <<FlagW - 1, FlagH - 1>>

FlagFree == FlagPos \ {<<0, 0>>, FlagCorner}

FlagGrids ==
  {[q \in FlagPos |->
      IF q \in B THEN (IF (q[1] + q[2]) % 2 = 0 THEN Mountain ELSE Mine(NEUTRAL))
      ELSE IF q = <<0, 0>> THEN Habitable("Grassland", UnitsOf(450, 50, 400, 0), 2)
      ELSE IF q = FlagCorner THEN Habitable("Village", UnitsOf(200, 100, 0, 100), 1)
      ELSE Grass]
     : B \in {b \in SUBSET FlagFree : Cardinality(b) <= 2}}

InitFlags ==
  \E g \in FlagGrids, early \in BOOLEAN :
    InitFrom([grid |-> g, gold |-> GoldOf(0, 0, 0), difficulty |-> "Normal", simulated |-> TRUE],
             [q \in Players |->
                IF early /\ q = 3 THEN FlagAdd(g, FlagGridNew(g), <<0, 0>>, FLAG_POWER)
                ELSE FlagGridNew(g)])

FlagsCanOperate == pc.ph = "idle" /\ ops < MaxFlagOps

FlagsOn == FlagsCanOperate /\ \E pos \in DOMAIN grid \cup {OutPos(grid)} : FlagOnOp(1, pos)

FlagsOff == FlagsCanOperate /\ \E pos \in DOMAIN grid \cup {OutPos(grid)} : FlagOffOp(1, pos)

FlagsOffAll == FlagsCanOperate /\ FlagOffAllOp(1)

FlagsOffHalf == FlagsCanOperate /\ FlagOffHalfOp(1)

FlagsKingsMove == FlagsCanOperate /\ KingsMoveOp

NextFlags == FlagsOn \/ FlagsOff \/ FlagsOffAll \/ FlagsOffHalf \/ FlagsKingsMove

SpecFlags == InitFlags /\ [][NextFlags]_vars

\* the habitable tiles one step away from the tiles of B
Around(g, B) ==
  {q \in DOMAIN g : is_habitable(g[q]) /\ \E b \in B, d \in 1 .. 6 : q = PosAdd(b, DIRS[d])}

\* breadth-first search from the tiles B, which are k steps from the start: the steps to b, -1 when there is no path
RECURSIVE Search(_, _, _, _)
Search(g, B, b, k) ==
  IF b \in B THEN k
  ELSE LET B2 == B \cup Around(g, B) IN
       IF B2 = B THEN -1 ELSE Search(g, B2, b, k + 1)

\* the length of the shortest hex path from a to b through habitable tiles, -1 when there is none
HexDist(g, a, b) == Search(g, {q \in {a} : IsHabAt(g, q)}, b, 0)

\* floor(FLAG_POWER / 2^d), nothing for the unreachable
Decay(d) == IF d < 0 THEN 0 ELSE FLAG_POWER \div (2 ^ d)

RECURSIVE SumDecay(_, _, _)
SumDecay(g, F, q) ==
  IF F = {} THEN 0
  ELSE LET f == CHOOSE f \in F : TRUE IN Decay(HexDist(g, f, q)) + SumDecay(g, F \ {f}, q)

\* the call field recomputed from the flags that are set
Superposition(g, fg, q) ==
  IF ~is_habitable(g[q]) THEN 0 ELSE SumDecay(g, {f \in DOMAIN g : fg.flags[f]}, q)

\* C4: after any sequence of add, remove, remove_with_prob and place_flags,
\* the call grid of every player equals, cell for cell, the sum over the set
\* flags of floor(FLAG_POWER / 2^d), d the shortest path through habitable
\* tiles, and 0 on cells that are not habitable or not reachable.
C4_CallIsSuperposition ==
  \A p \in RealPlayers : \A q \in DOMAIN grid :
    fgs[p].call[q] = Superposition(grid, fgs[p], q)

\* flags were added and removed, two flags of one player stand and their fields overlap,
\* a habitable tile is out of their reach, and a king has planted a flag
C4_Witness ==
  /\ ops >= 3
  /\ \E a, b \in DOMAIN grid :
       a # b /\ fgs[1].flags[a] /\ fgs[1].flags[b] /\ fgs[1].call[a] > FLAG_POWER
  /\ \E q \in DOMAIN grid : fgs[1].call[q] = 0 /\ is_habitable(grid[q])
  /\ \E p \in RealPlayers \ {1} : \E q \in DOMAIN grid : fgs[p].flags[q]

\* C5: on a flag grid with no flag set, add(pos, P) followed by remove(pos, P)
\* at a habitable pos leaves no flag and a call grid of zeros.
C5_AddRemoveRestores ==
  (last.op = "flag_off" /\ last.undoes /\ IsHabAt(grid, last.pos)) =>
    /\ \A q \in DOMAIN grid : ~fgs[last.player].flags[q]
    /\ \A q \in DOMAIN grid : fgs[last.player].call[q] = 0

\* a flag was added to an empty flag grid at a habitable tile with habitable neighbours and removed again
C5_Witness ==
  /\ last.op = "flag_off"
  /\ last.undoes
  /\ IsHabAt(grid, last.pos)
  /\ \E d \in 1 .. 6 : IsHabAt(grid, PosAdd(last.pos, DIRS[d]))

(***************************************************************************)
(* State::new: the map generation loop and the rest of the constructor.    *)
(* While the constructor runs, pc holds its position and its options       *)
(* b_opt, and after the loop the chosen_locs and the eval_result, in the   *)
(* order of chosen_locs, of the Grid::conflict that passed.                *)
(***************************************************************************)
GenPos == (0 .. (GenW - 1)) \X (0 .. (GenH - 1))

\* Tile::new, the branch that keeps the default tile and draws an owner
RawGrass(q) == Habitable("Grassland", NoUnits, (q[1] + 2 * q[2]) % MAX_PLAYERS)

\* Tile::new, a city: units[owner] = 10 with the default owner
RawCity(l) == Habitable(l, [NoUnits EXCEPT ![NEUTRAL] = 10], NEUTRAL)

\* outcomes of filling the grid with Tile::new: a map with cities, mountains
\* and mines, and maps with a mountain range along column k + 1
RawMap(k) ==
  [q \in GenPos |->
     CASE k = 1 -> (CASE q \in {<<1, 1>>, <<4, 3>>} -> RawCity("Town")
                      [] q \in {<<5, 4>>, <<2, 2>>} -> RawCity("Fortress")
                      [] q \in {<<3, 1>>} -> RawCity("Village")
                      [] q \in {<<2, 4>>, <<4, 1>>, <<3, 0>>, <<5, 2>>} -> Mountain
                      [] q \in {<<1, 3>>, <<3, 5>>, <<6, 0>>} -> Mine(NEUTRAL)
                      [] OTHER -> RawGrass(q))
       [] OTHER -> IF q[1] = k + 1 THEN Mountain ELSE RawGrass(q)]

\* BasicOpts: shape, locations, conditions (None for 0, or Some(c)), clients
\* and inequality (None for -1, or Some(k))
BasicOpts(sh, ln, cd, cn, iq) ==
  [shape |-> sh, locations |-> ln,
   conditions |-> IF cd = 0 THEN [some |-> FALSE, c |-> 0] ELSE [some |-> TRUE, c |-> cd],
   clients |-> cn,
   inequality |-> IF iq = -1 THEN [some |-> FALSE, k |-> 0] ELSE [some |-> TRUE, k |-> iq]]

\* the options State::new is called with: the defaults of BasicOpts (Rect,
\* four locations, one client), and other shapes, locations, conditions,
\* clients and inequalities
Options ==
  { BasicOpts("Rect", 4, 0, 1, -1), BasicOpts("Rhombus", 4, 0, 1, -1), BasicOpts("Rhombus", 2, 1, 1, -1),
    BasicOpts("Rect", 3, 2, 1, -1), BasicOpts("Rect", 4, 0, 2, -1), BasicOpts("Rhombus", 4, 0, 2, -1),
    BasicOpts("Rect", 4, 1, 1, -1), BasicOpts("Rect", 4, 3, 1, -1), BasicOpts("Rect", 4, 4, 1, -1),
    BasicOpts("Rect", 3, 4, 1, -1), BasicOpts("Rect", 4, 5, 1, -1) }
    \cup {BasicOpts("Rect", 4, 0, 1, iq) : iq \in 0 .. 4}

\* the directions drawn for the mines of the locations, as indices into DIRS
DirDraws == {<<1, 3, 2, 4>>, <<5, 6, 1, 2>>}

\* outcomes of fastrand::shuffle: the order kept and the order reversed
Shuffles(s) == {s, [i \in 1 .. Len(s) |-> s[Len(s) + 1 - i]]}

\* the first n elements
Take(s, n) == [i \in 1 .. n |-> s[i]]

\* all_players[lo..hi] of State::new, as a sequence
PlayerSeq(lo, hi) == [i \in 1 .. (hi - lo + 1) |-> lo + i - 1]

\* King::new: no values before evaluate_map
KingsBlank(g, cn) ==
  [n \in 1 .. (MAX_PLAYERS - 1 - cn) |->
     [player |-> cn + n, strategy |-> StrategyAt(n - 1), values |-> ZeroGrid(g)]]

\* the variables before State::new has built the map, but for pc and rng
GenFrom(o) ==
  /\ grid = [q \in GenPos |-> Grass]
  /\ fgs = [q \in Players |-> FlagGridNew(grid)]
  /\ clients = o.clients
  /\ NoNet
  /\ kings = KingsBlank(grid, o.clients)
  /\ gold = [q \in Players |-> 0]
  /\ time = 0
  /\ difficulty = "Normal"
  /\ controlled = 1
  /\ need_to_reeval = FALSE
  /\ scan = <<1, 1>>
  /\ simulated = FALSE
  /\ ticks = 0
  /\ ops = 0
  /\ last = NoOp
  /\ gold0 = [q \in Players |-> 0]
  /\ grid0 = <<>>
  /\ timeline = timeline_new(time)

InitGen == \E o \in Options : GenFrom(o) /\ pc = [ph |-> "new", n |-> 1, b_opt |-> o] /\ rng = 0

\* one round of the loop: fill with Tile::new, Stencil::apply, Grid::conflict
MapAttempt(o, k, di, dirs, sh_comp, sh, ihuman) ==
  conflict(stencil_apply(o.shape, RawMap(k)), stencil_locs(o.shape, GenW, GenH, 2), o.locations,
           PlayerSeq(o.clients + 1, MAX_PLAYERS - 1), PlayerSeq(1, o.clients),
           o.conditions, o.inequality, di, dirs, sh_comp, sh, ihuman)

\* num of Grid::conflict for the options o
conflict_num(o) == Min(Min(Max(o.locations, 2), max_locs(o.shape)), MAX_PLAYERS - 1)

\* the map generation loop of State::new: it leaves the first map that
\* Grid::conflict accepts and Grid::is_connected finds connected; the maps
\* rejected before it are overwritten whole
GenMap ==
  /\ pc.ph = "new"
  /\ LET o == pc.b_opt
         players == PlayerSeq(o.clients + 1, MAX_PLAYERS - 1)
         ui_players == PlayerSeq(1, o.clients)
         num == conflict_num(o)
     IN \E k \in 1 .. GenMaps, di \in 0 .. (max_locs(o.shape) - 1), dirs \in DirDraws,
           sh_comp \in (IF o.clients > 1 THEN {players} ELSE Shuffles(players)),
           sh \in (IF o.clients > 1 THEN Shuffles(Take(ui_players \o players, num)) ELSE {<<>>}),
           ihuman \in (IF o.clients > 1 \/ o.conditions.some THEN {0} ELSE {0, num - 1}) :
          \E r \in {MapAttempt(o, k, di, dirs, sh_comp, sh, ihuman)} :
            /\ r.res = "Ok"
            /\ is_connected(r.grid)
            /\ grid' = r.grid
            /\ pc' = [ph |-> "built", n |-> pc.n, b_opt |-> pc.b_opt,
                      chosen |-> r.chosen, scores |-> r.scores]
  /\ UNCHANGED <<fgs, kings, gold, time, difficulty, controlled, clients, speed, cl, srv, tasks, sock, client, cli,
                 need_to_reeval, scan, simulated, ticks, ops, last, gold0, grid0, timeline, rng>>

\* a build with overflow checks aborts on "num - c as usize" below zero, in
\* the first Grid::conflict that passes the inequality gate
GenPanic ==
  /\ pc.ph = "new"
  /\ pc.b_opt.conditions.some
  /\ pc.b_opt.conditions.c > conflict_num(pc.b_opt)
  /\ \E k \in 1 .. GenMaps, di \in 0 .. (max_locs(pc.b_opt.shape) - 1), dirs \in DirDraws :
       MapAttempt(pc.b_opt, k, di, dirs, PlayerSeq(pc.b_opt.clients + 1, MAX_PLAYERS - 1), <<>>, 0).res = "Ok"
  /\ pc' = [pc EXCEPT !.ph = "panic"]
  /\ UNCHANGED <<grid, fgs, kings, gold, time, difficulty, controlled, clients, speed, cl, srv, tasks, sock, client, cli,
                 need_to_reeval, scan, simulated, ticks, ops, last, gold0, grid0, timeline, rng>>

\* the rest of State::new: flag grids, evaluate_map of every king
GenFinish ==
  /\ pc.ph = "built"
  /\ fgs' = [q \in Players |-> FlagGridNew(grid)]
  /\ kings' = KingsNew(grid, clients)
  /\ pc' = Idle
  /\ UNCHANGED <<grid, gold, time, difficulty, controlled, clients, speed, cl, srv, tasks, sock, client, cli,
                 need_to_reeval, scan, simulated, ticks, ops, last, gold0, grid0, timeline, rng>>

NextGen == GenMap \/ GenPanic \/ GenFinish

SpecGen == InitGen /\ [][NextGen]_vars

\* the player a habitable tile belongs to by its populations: the lowest
\* player p >= 1 holding the largest units[p], NEUTRAL when they are all zero
ArgmaxOwner(u) ==
  IF \A p \in RealPlayers : u[p] = 0 THEN NEUTRAL
  ELSE CHOOSE p \in RealPlayers :
         /\ \A r \in RealPlayers : u[r] <= u[p]
         /\ \A r \in RealPlayers : u[r] = u[p] => p <= r

\* C2: at t=0 after State::new and after every simulate, the owner of every
\* habitable tile is the player p >= 1 with the largest units[p], the lowest
\* index winning ties, and NEUTRAL when units[1..] are all zero.
C2_AsStated ==
  (pc.ph = "idle" /\ (time = 0 \/ simulated)) =>
    \A q \in DOMAIN grid : is_habitable(grid[q]) => grid[q].owner = ArgmaxOwner(grid[q].units)

(***************************************************************************)
(* Properties of the running game.                                         *)
(***************************************************************************)
HabitableTiles == {q \in DOMAIN grid : is_habitable(grid[q])}

\* C1: in every state reached by kings_move, simulate, Grid::build and flag
\* operations, every habitable tile holds between 0 and MAX_POPULATION units
\* of every player p >= 1.
C1_PopulationBounds ==
  \A q \in HabitableTiles : \A p \in RealPlayers :
    0 <= grid[q].units[p] /\ grid[q].units[p] <= MAX_POPULATION

\* a simulate has run and left a tile full although more units were heading for it
C1_Witness ==
  /\ pc.ph = "idle"
  /\ ticks >= 1
  /\ \E q \in HabitableTiles : \E p \in RealPlayers :
       /\ grid[q].units[p] = MAX_POPULATION
       /\ \E d \in 1 .. 6 : LET nb == PosAdd(q, DIRS[d]) IN
            IsHabAt(grid, nb) /\ grid[nb].units[p] >= 20

RECURSIVE SumOver(_, _)
SumOver(u, S) == IF S = {} THEN 0 ELSE LET x == CHOOSE x \in S : TRUE IN u[x] + SumOver(u, S \ {x})

\* C3: after every simulate, units[0] of every habitable tile is the sum of
\* the units of the players 1 and up.
C3_TotalIsSum ==
  (pc.ph = "idle" /\ ticks >= 1) =>
    \A q \in HabitableTiles : grid[q].units[0] = SumOver(grid[q].units, RealPlayers)

\* a simulate has run on a fresh map, whose Fortresses started with units[0] = 0
C3_Witness ==
  /\ pc.ph = "idle"
  /\ ticks >= 1
  /\ \E q \in HabitableTiles : grid[q].land = "Fortress" /\ grid[q].units[0] >= 10
  /\ \E q \in HabitableTiles : \E p, r \in RealPlayers : p # r /\ grid[q].units[p] > 0 /\ grid[q].units[r] > 0

\* the non-neutral owners of the habitable neighbours of pos
NeighbourOwners(g, pos) ==
  {TileOwner(g[PosAdd(pos, DIRS[d])]) : d \in {e \in 1 .. 6 : IsHabAt(g, PosAdd(pos, DIRS[e]))}} \ {NEUTRAL}

\* the owner the rule gives a mine
MineRule(g, pos) ==
  LET S == NeighbourOwners(g, pos) IN
  IF Cardinality(S) = 1 THEN CHOOSE o \in S : TRUE ELSE NEUTRAL

\* the orders in which six neighbours can be inspected
Orders == {o \in [1 .. 6 -> 1 .. 6] : \A a, b \in 1 .. 6 : a # b => o[a] # o[b]}

\* the step of the tile loop that stands on a Mine
MineStep == pc.ph = "tiles" /\ pc' # pc /\ grid[CurTile].kind = "Mine"

\* C9: the tile loop gives each Mine the single non-neutral owner of its
\* habitable neighbours, NEUTRAL when there is none or more than one, and
\* inspecting the neighbours in any other order gives the same owner.
C9_MineOwnerRule ==
  [][MineStep =>
       /\ grid'[CurTile].kind = "Mine"
       /\ grid'[CurTile].owner = MineRule(grid, CurTile)
       /\ \A o \in Orders :
            LET r == mine_owner_fold(grid, CurTile, [k \in 1 .. 6 |-> o[k]], 1, NEUTRAL)
            IN (IF r = -1 THEN NEUTRAL ELSE r) = MineRule(grid, CurTile)]_vars

\* the loop is past a mine that went to the owner of one neighbour although another neighbour is neutral
C9_Witness ==
  /\ pc.ph = "scan"
  /\ \E q \in DOMAIN grid :
       /\ grid[q].kind = "Mine"
       /\ grid[q].owner # NEUTRAL
       /\ Cardinality(NeighbourOwners(grid, q)) = 1
       /\ \E d \in 1 .. 6 : LET nb == PosAdd(q, DIRS[d]) IN
            IsHabAt(grid, nb) /\ TileOwner(grid[nb]) = NEUTRAL

\* the mines owned by player p
MinesOf(g, p) == {q \in DOMAIN g : g[q].kind = "Mine" /\ g[q].owner = p}

\* C10: once the tile loop of a simulate is through, every country has gained
\* exactly 1 gold per Mine resolved to its non-neutral player, and country 0
\* has gained nothing.
C10_MineGold ==
  (pc.ph \in {"scan", "migrate"}) =>
    \A p \in Players :
      gold[p] = gold0[p] + (IF p = NEUTRAL THEN 0 ELSE Cardinality(MinesOf(grid, p)))

\* a tile loop has paid one player and left a mine neutral on another map
C10_Witness ==
  /\ pc.ph = "scan"
  /\ \E p \in RealPlayers : MinesOf(grid, p) # {} /\ gold[p] = gold0[p] + 1

\* C11: on every difficulty, the last step of every simulate (the step that
\* hands out the Hard/Hardest bonus) leaves the gold of the controlled
\* player's country as it was.
C11_ControlledNoBonus ==
  [][pc.ph = "final" => gold'[controlled] = gold[controlled]]_vars

\* a tick has ended on a hard difficulty with the controlled country holding gold
C11_Witness ==
  /\ pc.ph = "idle"
  /\ ticks >= 1
  /\ difficulty \in {"Hard", "Hardest"}
  /\ gold[controlled] > 0
  /\ \E p \in RealPlayers : p # controlled /\ gold[p] > 0

(***************************************************************************)
(* A game with two human clients, as the server builds it: State::new with *)
(* clients = 2 makes kings for players 3 and up and leaves controlled at   *)
(* Player(1).  The maps are states of a game under way with exact unit     *)
(* caches, so the subtraction of the combat step never goes below zero.    *)
(***************************************************************************)
MultiScenarios ==
  { [grid |-> GridOf(Habitable("Village", UnitsOf(30, 30, 0, 0), 1),
                     Habitable("Town", UnitsOf(40, 0, 40, 0), 2),
                     Habitable("Grassland", UnitsOf(20, 0, 0, 20), 3),
                     Mine(3)),
     gold |-> GoldOf(100, 50, 30), difficulty |-> "Hard"],
    [grid |-> GridOf(Habitable("Village", UnitsOf(30, 30, 0, 0), 1),
                     Habitable("Town", UnitsOf(40, 0, 40, 0), 2),
                     Habitable("Grassland", UnitsOf(20, 0, 0, 20), 3),
                     Mine(3)),
     gold |-> GoldOf(100, 0, 0), difficulty |-> "Hardest"],
    [grid |-> GridOf(Habitable("Village", UnitsOf(30, 30, 0, 0), 1),
                     Habitable("Town", UnitsOf(40, 0, 40, 0), 2),
                     Habitable("Grassland", UnitsOf(20, 0, 0, 20), 3),
                     Mountain),
     gold |-> GoldOf(100, 50, 30), difficulty |-> "Normal"] }

InitMulti ==
  \E s \in MultiScenarios :
    /\ grid = s.grid
    /\ fgs = [q \in Players |-> FlagGridNew(s.grid)]
    /\ clients = 2
    /\ NoNet
    /\ kings = KingsNew(s.grid, 2)
    /\ gold = s.gold
    /\ time = 0
    /\ difficulty = s.difficulty
    /\ controlled = 1
    /\ pc = Idle
    /\ need_to_reeval = FALSE
    /\ scan = <<1, 1>>
    /\ simulated = TRUE
    /\ ticks = 0
    /\ ops = 0
    /\ last = NoOp
    /\ gold0 = [q \in Players |-> 0]
    /\ grid0 = <<>>
    /\ timeline = timeline_new(time)
    /\ rng = 0

NextMulti == SimBegin \/ SimTile \/ SimScan \/ SimMigrate \/ SimFinal \/ KingsMove \/ Build

SpecMulti == InitMulti /\ [][NextMulti]_vars

\* player p has a King: State::new made it an AI player
HasKing(p) == \E n \in DOMAIN kings : kings[n].player = p

\* C12: the last step of a simulate adds 1 on Hard and 2 on Hardest to the
\* gold of exactly the players that have a King and hold gold > 0, and
\* leaves the gold of every human player, additional clients included, and
\* all gold on other difficulties, as it was.
C12_AsStated ==
  [][pc.ph = "final" =>
       \A p \in RealPlayers :
         gold'[p] = gold[p] + (IF HasKing(p) /\ gold[p] > 0 THEN add_gold(difficulty) ELSE 0)]_vars

(***************************************************************************)
(* The S2C message: S2CData::new on the server, apply_s2c_msg on the       *)
(* client.  A multi-byte field of the packed struct is the tuple of its    *)
(* bytes in memory, most significant first, which is what to_be stores and *)
(* from_be reads on every target.  Server grids stay inside the MAX_WIDTH  *)
(* by MAX_HEIGHT arrays of the message, which S2CData::new indexes without *)
(* a check.                                                                *)
(***************************************************************************)
to_be32(x) == <<(x \div 16777216) % 256, (x \div 65536) % 256, (x \div 256) % 256, x % 256>>

from_be32(b) == ((b[1] * 256 + b[2]) * 256 + b[3]) * 256 + b[4]

to_be16(x) == <<(x \div 256) % 256, x % 256>>

from_be16(b) == b[1] * 256 + b[2]

WirePos == (0 .. (MAX_WIDTH - 1)) \X (0 .. (MAX_HEIGHT - 1))

\* impl From<&Tile> for TileClass, as u8
TileClass(t) ==
  CASE t.kind = "Void" -> 0
    [] t.kind = "Mountain" -> 1
    [] t.kind = "Mine" -> 2
    [] t.land = "Grassland" -> 3
    [] t.land = "Village" -> 4
    [] t.land = "Town" -> 5
    [] OTHER -> 6

\* impl From<TileClass> for Tile
TileFromClass(c) ==
  CASE c = 0 -> Void
    [] c = 1 -> Mountain
    [] c = 2 -> Mine(NEUTRAL)
    [] c = 3 -> Habitable("Grassland", NoUnits, NEUTRAL)
    [] c = 4 -> Habitable("Village", NoUnits, NEUTRAL)
    [] c = 5 -> Habitable("Town", NoUnits, NEUTRAL)
    [] OTHER -> Habitable("Fortress", NoUnits, NEUTRAL)

\* the bits 1 << p of the players whose flag grid has a flag on q
RECURSIVE flag_byte(_, _, _)
flag_byte(f, q, p) ==
  IF p >= MAX_PLAYERS THEN 0
  ELSE (IF q \in DOMAIN f[p].flags /\ f[p].flags[q] THEN 2 ^ p ELSE 0) + flag_byte(f, q, p + 1)

\* S2CData::new
S2CData_new(player, g, f, gd, t) ==
  [player |-> player % 256,
   gold   |-> [q \in Players |-> to_be32(gd[q])],
   time   |-> to_be32(t),
   width  |-> width(g) % 256,
   height |-> height(g) % 256,
   flag   |-> [q \in WirePos |-> flag_byte(f, q, 0) % 256],
   owner  |-> [q \in WirePos |-> IF q \in DOMAIN g THEN TileOwner(g[q]) % 256 ELSE 0],
   pop    |-> [q \in WirePos |-> IF q \in DOMAIN g THEN to_be16(g[q].units[TileOwner(g[q])]) ELSE to_be16(0)],
   tile   |-> [q \in WirePos |-> IF q \in DOMAIN g THEN TileClass(g[q]) ELSE 0]]

\* apply_s2c_msg: the tile the message puts on position q
s2c_tile(data, q) ==
  LET owner == data.owner[q]
      t     == set_owner(TileFromClass(data.tile[q]), owner)
      pop   == IF owner = 0 THEN 0 ELSE from_be16(data.pop[q])
  IN IF t.kind = "Habitable" /\ owner < MAX_PLAYERS
     THEN [t EXCEPT !.units = [[NoUnits EXCEPT ![owner] = pop] EXCEPT ![0] = pop]]
     ELSE t

\* bit p of a flag byte
flag_bit(b, p) == (b \div (2 ^ p)) % 2 = 1

\* apply_s2c_msg past the test of the time: the State overwritten from the message
s2c_overwrite(st, data) ==
  [time       |-> from_be32(data.time),
   gold       |-> [q \in Players |-> from_be32(data.gold[q])],
   fg_width   |-> data.width,
   fg_height  |-> data.height,
   controlled |-> data.player,
   grid       |-> [q \in DOMAIN st.grid |->
                     IF q \in WirePos THEN s2c_tile(data, q) ELSE st.grid[q]],
   fgs        |-> [p \in Players |->
                     [flags |-> [q \in DOMAIN st.grid |->
                                   IF q \in WirePos THEN flag_bit(data.flag[q], p)
                                   ELSE st.fgs[p].flags[q]],
                      call  |-> [q \in DOMAIN st.grid |->
                                   IF q \in WirePos THEN 0 ELSE st.fgs[p].call[q]]]]]

\* apply_s2c_msg that lets a snapshot of the very time of the state through
apply_s2c_msg_accepts_equal(st, data) ==
  IF from_be32(data.time) < st.time
  THEN [st |-> st, res |-> "DeprecatedMsg"]
  ELSE [st |-> s2c_overwrite(st, data), res |-> "Ok"]

\* apply_s2c_msg on the State st of a client
apply_s2c_msg(st, data) ==
  IF from_be32(data.time) <= st.time
  THEN [st |-> st, res |-> "DeprecatedMsg"]
  ELSE [st |-> s2c_overwrite(st, data), res |-> "Ok"]

(***************************************************************************)
(* A server State that ticks and sends snapshots, and a client program     *)
(* that applies what arrives.  The client built its own State with         *)
(* State::new from its own options, so its grid has its own width, and     *)
(* client::run has set its time to 0.  A datagram can arrive more than     *)
(* once and in any order.                                                  *)
(***************************************************************************)
ClientWidths == {1, 2, 4}

\* the State of the client program before the first message
ClientState(w) ==
  LET g == [q \in (0 .. (w - 1)) \X (0 .. (GridH - 1)) |-> Grass]
  IN [time |-> 0, gold |-> [q \in Players |-> 0], fg_width |-> w, fg_height |-> GridH,
      controlled |-> 1, grid |-> g, fgs |-> [p \in Players |-> FlagGridNew(g)]]

\* the flag grids of a server on which player 1 has planted a flag
FlaggedOnce(g) ==
  [q \in Players |-> IF q = 1 THEN FlagAdd(g, FlagGridNew(g), <<0, 0>>, FLAG_POWER) ELSE FlagGridNew(g)]

InitMsg ==
  /\ \E s \in {x \in Scenarios : x.simulated} : GameFrom(s, FlaggedOnce(s.grid), 1)
  /\ NoServer
  /\ cli = [at |-> "off"]
  /\ \E w \in ClientWidths :
       client = [at |-> "on", st |-> ClientState(w), inbox |-> {}, res |-> "Ok", n |-> 0,
                 last |-> [time |-> to_be32(0)]]

MsgFrame ==
  UNCHANGED <<grid, fgs, kings, gold, time, difficulty, controlled, clients, speed, cl, srv, tasks,
              sock, cli, pc, need_to_reeval, scan, simulated, ticks, ops, last, gold0, grid0, timeline, rng>>

\* the server builds the snapshot of its State for player 1 and sends it
MsgSnapshot ==
  /\ pc.ph = "idle"
  /\ ticks >= 1
  /\ client' = [client EXCEPT !.inbox = @ \cup {S2CData_new(1, grid, fgs, gold, time)}]
  /\ client' # client
  /\ MsgFrame

\* the client program applies a datagram that has arrived
MsgApply ==
  /\ client.n < MaxApplies
  /\ \E data \in client.inbox :
       LET r == apply_s2c_msg(client.st, data)
       IN client' = [client EXCEPT !.st = r.st, !.res = r.res, !.n = @ + 1, !.last = data]
  /\ MsgFrame

NextMsg == SimBegin \/ SimTile \/ SimScan \/ SimMigrate \/ SimFinal \/ MsgSnapshot \/ MsgApply

SpecMsg == InitMsg /\ [][NextMsg]_vars

\* the step in which the client program has handled one more datagram
Applied == client'.n = client.n + 1

\* C13: apply_s2c_msg with a snapshot whose time is <= the time of the client
\* State returns DeprecatedMsg and leaves that State (time, gold, controlled,
\* grid, flag grids) as it was.
C13_StaleRejected ==
  [][(Applied /\ from_be32(client'.last.time) <= client.st.time) =>
       (client'.res = "DeprecatedMsg" /\ client'.st = client.st)]_vars

\* a snapshot of exactly the time of the client State has been refused
C13_Witness ==
  /\ client.at = "on"
  /\ client.n >= 2
  /\ client.res = "DeprecatedMsg"
  /\ client.st.time > 0
  /\ from_be32(client.last.time) = client.st.time

\* at every position of the server grid g the client State st has a tile of
\* the same class, owner and population of the owner, and the same flag bits
SameTiles(g, f, st) ==
  \A q \in DOMAIN g :
    /\ q \in DOMAIN st.grid
    /\ TileClass(st.grid[q]) = TileClass(g[q])
    /\ TileOwner(st.grid[q]) = TileOwner(g[q])
    /\ st.grid[q].units[TileOwner(g[q])] = g[q].units[TileOwner(g[q])]
    /\ \A p \in Players : st.fgs[p].flags[q] = f[p].flags[q]

\* C14: applying the snapshot S2CData::new makes of a server State reached
\* by simulate to a client State with an earlier time yields a client State
\* that has, at every tile position of the server State, the same tile
\* class, owner, population of the owner and flag bit of each player.
C14_AsStated ==
  [][(/\ Applied
      /\ client.st.time < time
      /\ client'.last = S2CData_new(client'.last.player, grid, fgs, gold, time)) =>
       SameTiles(grid, fgs, client'.st)]_vars

(***************************************************************************)
(* The server before the game: the lobby loop of main.  Peers send         *)
(* datagrams, the loop reads them one at a time.  The State does not       *)
(* exist yet.  The server is started for at least one client: State::new   *)
(* has no strategy for a seventh king.                                     *)
(***************************************************************************)
Peers == 1 .. MaxPeers

\* what a peer can send before the game: nothing, a frame with a zero first
\* byte, CONNECT, IS_ALIVE
LobbyBytes == {<<>>, <<0, 0, 0, 0>>, <<1, 0, 0, 0>>, <<30, 0, 0, 0>>}

\* the variables of State before State::new has run
NoGame ==
  /\ grid = <<>>
  /\ fgs = <<>>
  /\ kings = <<>>
  /\ gold = [q \in Players |-> 0]
  /\ time = 0
  /\ difficulty = "Normal"
  /\ controlled = 1
  /\ pc = [ph |-> "none", n |-> 1]
  /\ need_to_reeval = FALSE
  /\ scan = <<1, 1>>
  /\ simulated = FALSE
  /\ ticks = 0
  /\ ops = 0
  /\ last = NoOp
  /\ gold0 = [q \in Players |-> 0]
  /\ grid0 = <<>>
  /\ timeline = <<>>
  /\ rng = 0

InitLobby ==
  /\ NoGame
  /\ \E r \in 1 .. MaxClients :
       /\ clients = r
       /\ srv = [at |-> "lobby", requested |-> r, frame |-> [peer |-> 0, bytes |-> <<>>]]
  /\ speed = "Normal"
  /\ cl = <<>>
  /\ tasks = {}
  /\ sock = [inbox |-> <<>>, left |-> MaxFrames]
  /\ client = [at |-> "off"]
  /\ cli = [at |-> "off"]

LobbyFrame ==
  UNCHANGED <<grid, fgs, kings, gold, time, difficulty, controlled, speed, tasks, client, cli,
              pc, need_to_reeval, scan, simulated, ticks, ops, last, gold0, grid0, timeline, rng>>

\* a peer sends a datagram to the server's socket
LobbySend ==
  /\ srv.at = "lobby"
  /\ sock.left > 0
  /\ \E a \in Peers, b \in LobbyBytes :
       sock' = [inbox |-> Append(sock.inbox, [peer |-> a, bytes |-> b]), left |-> sock.left - 1]
  /\ UNCHANGED <<clients, cl, srv>>
  /\ LobbyFrame

\* the record the lobby makes for a new peer
ClientRecord(addr, n) == [addr |-> addr, player |-> n + 1, id |-> n]

\* the lobby with a record for every frame, known peer or not
lobby_clients_any_frame(recs, d) == Append(recs, ClientRecord(d.peer, Len(recs)))

\* the client records after the lobby has read datagram d
lobby_clients(recs, d) ==
  IF Len(d.bytes) >= 1 /\ d.bytes[1] > 0 /\ ~(\E i \in 1 .. Len(recs) : recs[i].addr = d.peer)
  THEN Append(recs, ClientRecord(d.peer, Len(recs)))
  ELSE recs

\* one iteration of the lobby loop: recv_from, the record, the test that ends the lobby
LobbyRecv ==
  /\ srv.at = "lobby"
  /\ sock.inbox # <<>>
  /\ LET d == Head(sock.inbox)
         recs == lobby_clients(cl, d)
         leave == Len(d.bytes) >= 1 /\ d.bytes[1] > 0 /\ Len(recs) >= clients
     IN /\ cl' = recs
        /\ clients' = IF leave THEN Len(recs) ELSE clients
        /\ srv' = [srv EXCEPT !.at = IF leave THEN "new" ELSE "lobby", !.frame = d]
  /\ sock' = [sock EXCEPT !.inbox = Tail(@)]
  /\ LobbyFrame

NextLobby == LobbySend \/ LobbyRecv

SpecLobby == InitLobby /\ [][NextLobby]_vars

\* the addresses of the client records
Addrs(recs) == {recs[i].addr : i \in 1 .. Len(recs)}

\* the last frame read came from a peer that had no record
NewPeer == Len(srv'.frame.bytes) >= 1 /\ srv'.frame.bytes[1] > 0 /\ srv'.frame.peer \notin Addrs(cl)

\* C16: in the lobby every frame from a peer without a record adds exactly
\* one record, with id the number of records before it and player id + 1,
\* and a frame from a known peer adds none; ids are 0..n-1 and addresses are
\* pairwise distinct; the lobby is left exactly when the number of records
\* is >= the requested count, with opts.clients set to that number.
C16_Lobby ==
  /\ [](\A i \in 1 .. Len(cl) : cl[i].id = i - 1 /\ cl[i].player = cl[i].id + 1)
  /\ [](\A i, j \in 1 .. Len(cl) : cl[i].addr = cl[j].addr => i = j)
  /\ []((srv.at = "lobby") <=> (Len(cl) < srv.requested))
  /\ [](srv.at = "new" => clients = Len(cl))
  /\ [][srv'.frame # srv.frame \/ Len(sock'.inbox) < Len(sock.inbox) =>
          IF NewPeer THEN cl' = Append(cl, ClientRecord(srv'.frame.peer, Len(cl)))
          ELSE cl' = cl]_vars

\* the lobby has been left with the two records asked for after all its
\* frames were read, so some frame read in between added no record
C16_Witness ==
  /\ srv.at = "new"
  /\ srv.requested = 2
  /\ Len(cl) = 2
  /\ sock.left = 0
  /\ sock.inbox = <<>>

(***************************************************************************)
(* The server in the game: the play loop of main on a LocalExecutor.       *)
(* A step of the model is what one task runs between two of its await      *)
(* points; the tick, which has none, is cut into kings_move, simulate and  *)
(* the broadcast, and nothing else runs until the broadcast is through.    *)
(* The executor polls the tasks the main task has just spawned before it   *)
(* polls the main task again; a task that found its socket not ready       *)
(* waits until the reactor wakes it.                                       *)
(*   srv.at      "top" before the first iteration, "race" while the main   *)
(*               task waits in the race of the timer against the receive   *)
(*               loop, "kings", "sim", "cast" inside the tick, "panic"     *)
(*               after a BorrowMutError                                    *)
(*   srv.time    the loop counter, srv.c the counter of the receive loop   *)
(*   srv.rdy     the reactor has reported the socket readable to the       *)
(*               readable() the receive loop waits on                      *)
(*   srv.borrow  the borrows of the RefCell<State> that are out            *)
(*   srv.iter, srv.moves, srv.casts   iterations begun, kings_move calls   *)
(*               and broadcasts made; srv.loops the iterations to run      *)
(*   srv.applied the C2S frames applied to State                           *)
(*   tasks.send  the send tasks, each with its client, the State.time of   *)
(*               its snapshot and its state; tasks.recv the number of      *)
(*               receive tasks in each state                               *)
(*   sock.left, sock.blocks   the datagrams the peers may still send and   *)
(*               the times a send may still find the socket not writable   *)
(***************************************************************************)
slowdown(sp) ==
  CASE sp = "Pause" -> 0
    [] sp = "Slowest" -> 160
    [] sp = "Slower" -> 80
    [] sp = "Slow" -> 40
    [] sp = "Normal" -> 20
    [] sp = "Fast" -> 10
    [] sp = "Faster" -> 5
    [] sp = "Fastest" -> 2

Speeds == {"Pause", "Slowest", "Slower", "Slow", "Normal", "Fast", "Faster", "Fastest"}

\* the loop counter wrapping to 1
next_time_wraps_to_one(t) == IF t + 1 >= 1600 THEN 1 ELSE t + 1

\* "time += 1; if time >= 1600 { time = 0 }"
next_time(t) == IF t + 1 >= 1600 THEN 0 ELSE t + 1

\* "time.checked_rem(slowdown(st.speed)) == Some(0) && st.speed != Speed::Pause"
tick_due(t, sp) == slowdown(sp) # 0 /\ t % slowdown(sp) = 0 /\ sp # "Pause"

\* the borrow a task or the tick gives back when its guard is dropped, never given back
release_never(b) == b

\* the borrow a task or the tick gives back when its guard is dropped
release(b) == b - 1

\* a game under way in which player 1 holds every tile with a full population
QuietGame ==
  [grid |-> GridOf(Habitable("Fortress", UnitsOf(499, 499, 0, 0), 1),
                   Habitable("Town", UnitsOf(499, 499, 0, 0), 1),
                   Habitable("Village", UnitsOf(499, 499, 0, 0), 1),
                   Habitable("Grassland", UnitsOf(499, 499, 0, 0), 1)),
   gold |-> GoldOf(0, 0, 0), difficulty |-> "Normal", simulated |-> TRUE]

\* the play loop about to start with n clients, to run for loops iterations,
\* the peers sending left datagrams and the socket refusing blocks sends
PlayFrom(n, sp, loops, left, blocks) ==
  /\ GameFrom(QuietGame, [q \in Players |-> FlagGridNew(QuietGame.grid)], n)
  /\ speed = sp
  /\ cl = [i \in 1 .. n |-> ClientRecord(i, i - 1)]
  /\ srv = [at |-> "top", time |-> 0, c |-> 0, rdy |-> FALSE, borrow |-> 0,
            iter |-> 0, moves |-> 0, casts |-> 0, applied |-> 0, loops |-> loops]
  /\ tasks = [send |-> {}, recv |-> [spawned |-> 0, blocked |-> 0, woken |-> 0]]
  /\ sock = [inbox |-> <<>>, left |-> left, blocks |-> blocks]
  /\ client = [at |-> "off"]
  /\ cli = [at |-> "off"]

\* some task the main task has spawned has not been polled yet
Spawned == tasks.recv.spawned > 0 \/ \E s \in tasks.send : s.st = "spawned"

GameVars == <<grid, fgs, kings, gold, time, difficulty, controlled, clients,
              pc, need_to_reeval, scan, simulated, ticks, ops, last, gold0, grid0, timeline, rng>>

\* the timer has fired: the race ends and the loop runs up to its next
\* await, through the tick when it is due
PlayLoop ==
  /\ srv.at \in {"top", "race"}
  /\ srv.iter < srv.loops
  /\ ~Spawned
  /\ LET t == next_time(srv.time) IN
       srv' = IF srv.borrow # 0 THEN [srv EXCEPT !.at = "panic"]
              ELSE [srv EXCEPT !.time = t, !.iter = @ + 1, !.c = 0, !.rdy = FALSE,
                               !.at = IF tick_due(t, speed) THEN "kings" ELSE "race",
                               !.borrow = IF tick_due(t, speed) THEN @ + 1 ELSE release(@ + 1)]
  /\ UNCHANGED <<GameVars, speed, cl, tasks, sock, client, cli>>

\* the tick: st.kings_move()
PlayKings ==
  /\ srv.at = "kings"
  /\ LET r == kings_move(grid, fgs, gold, kings) IN
       /\ grid' = r.grid
       /\ fgs' = r.fgs
       /\ gold' = r.gold
       /\ kings' = r.kings
  /\ srv' = [srv EXCEPT !.at = "sim", !.moves = @ + 1]
  /\ UNCHANGED <<time, difficulty, controlled, clients, pc, need_to_reeval, scan, simulated,
                 ticks, ops, last, gold0, grid0, timeline, rng, speed, cl, tasks, sock, client, cli>>

\* the tick: st.simulate() begins; its other steps are those of State::simulate
PlaySimBegin ==
  /\ srv.at = "sim"
  /\ pc.ph = "idle"
  /\ time' = time + 1
  /\ need_to_reeval' = FALSE
  /\ pc' = [ph |-> "tiles", n |-> 1]
  /\ last' = [NoOp EXCEPT !.op = "simulate"]
  /\ gold0' = gold
  /\ grid0' = grid
  /\ UNCHANGED <<timeline, rng>>
  /\ srv' = [srv EXCEPT !.at = "cast"]
  /\ UNCHANGED <<grid, fgs, kings, gold, difficulty, controlled, clients, scan, simulated,
                 ticks, ops, speed, cl, tasks, sock, client, cli>>

\* the tick: S2CData::new and a send task for every client; the borrow ends
PlayCast ==
  /\ srv.at = "cast"
  /\ pc.ph = "idle"
  /\ tasks' = [tasks EXCEPT !.send = @ \cup {[to |-> cl[i].id, player |-> cl[i].player,
                                               time |-> time, st |-> "spawned"] : i \in 1 .. Len(cl)}]
  /\ srv' = [srv EXCEPT !.at = "race", !.casts = @ + 1, !.borrow = release(@), !.c = 0, !.rdy = FALSE]
  /\ UNCHANGED <<GameVars, speed, cl, sock, client, cli>>

\* a send task is polled: send_to goes through, or finds the socket not writable
SendPoll ==
  /\ srv.at = "race"
  /\ \E s \in tasks.send :
       /\ s.st \in {"spawned", "woken"}
       /\ \/ /\ tasks' = [tasks EXCEPT !.send = @ \ {s}]
             /\ sock' = sock
          \/ /\ sock.blocks > 0
             /\ tasks' = [tasks EXCEPT !.send = (@ \ {s}) \cup {[s EXCEPT !.st = "blocked"]}]
             /\ sock' = [sock EXCEPT !.blocks = @ - 1]
  /\ UNCHANGED <<GameVars, speed, cl, srv, client, cli>>

\* the reactor finds the socket writable and wakes the send tasks that wait
SendWritable ==
  /\ srv.at = "race"
  /\ \E s \in tasks.send : s.st = "blocked"
  /\ tasks' = [tasks EXCEPT !.send = {IF s.st = "blocked" THEN [s EXCEPT !.st = "woken"] ELSE s : s \in @}]
  /\ UNCHANGED <<GameVars, speed, cl, srv, sock, client, cli>>

(***************************************************************************)
(* The play loop with one client that sends nothing, at every speed.       *)
(***************************************************************************)
InitClock == \E sp \in Speeds : PlayFrom(1, sp, PlayLoops, 0, 0)

NextClock ==
  PlayLoop \/ PlayKings \/ PlaySimBegin \/ SimTile \/ SimScan \/ SimMigrate \/ SimFinal \/ PlayCast \/ SendPoll

SpecClock == InitClock /\ [][NextClock]_vars

\* C15: with a constant speed s other than Pause, kings_move, simulate and
\* the broadcast have each run exactly once for every slowdown(s) iterations
\* of the loop begun, the wrap of the counter at 1600 included; with Pause
\* none of them ever runs.
C15_TickSchedule ==
  srv.at = "race" =>
    LET n == IF speed = "Pause" THEN 0 ELSE srv.iter \div slowdown(speed)
    IN srv.moves = n /\ ticks = n /\ srv.casts = n

\* the slowest speed has ticked for the eleventh time, 160 iterations after
\* the tick at the wrap of the counter
C15_Witness ==
  /\ srv.at = "race"
  /\ speed = "Slowest"
  /\ srv.iter = 1760
  /\ srv.time = 160
  /\ srv.casts = 11

(***************************************************************************)
(* The receive side of the play loop.                                      *)
(***************************************************************************)
\* what a peer can send in the game: FLAG_ON and FLAG_OFF_HALF for the first
\* tile, and a frame of one byte
PlayBytes == {<<21, 0, 0, 0>>, <<24, 0, 0, 0>>, <<30>>}

\* the peers that send in the game: the first client and a stranger
PlayPeers == {1, MaxPeers}

C2S_SIZE == 4

\* apply_c2s_msg taking the flag grid of the first player for every client
apply_c2s_msg_first_fg(g, f, gd, player, msg, x, y, drop) ==
  LET pos == <<x, y>>
      flagged(fg) == [grid |-> g, fgs |-> [f EXCEPT ![1] = fg], gold |-> gd, res |-> "Ok"]
      missing == [grid |-> g, fgs |-> f, gold |-> gd, res |-> "PlayerNotFound"]
  IN CASE msg = 20 ->
            IF player \notin DOMAIN gd THEN missing
            ELSE LET r == GridBuild(g, gd, player, pos)
                 IN [grid |-> r.grid, fgs |-> f, gold |-> r.gold, res |-> r.res]
       [] msg = 21 -> flagged(FlagAdd(g, f[1], pos, FLAG_POWER))
       [] msg = 22 -> flagged(FlagRemove(g, f[1], pos, FLAG_POWER))
       [] msg = 23 -> flagged(remove_with_prob(g, f[1], DOMAIN g))
       [] msg = 24 -> flagged(remove_with_prob(g, f[1], drop))
       [] OTHER -> [grid |-> g, fgs |-> f, gold |-> gd, res |-> "Ok"]

\* apply_c2s_msg — drop is the set of positions whose draw was <= 0.5
apply_c2s_msg(g, f, gd, player, msg, x, y, drop) ==
  LET pos == <<x, y>>
      flagged(fg) == [grid |-> g, fgs |-> [f EXCEPT ![player] = fg], gold |-> gd, res |-> "Ok"]
      missing == [grid |-> g, fgs |-> f, gold |-> gd, res |-> "PlayerNotFound"]
  IN CASE msg = 20 ->
            IF player \notin DOMAIN gd THEN missing
            ELSE LET r == GridBuild(g, gd, player, pos)
                 IN [grid |-> r.grid, fgs |-> f, gold |-> r.gold, res |-> r.res]
       [] msg = 21 ->
            IF player \notin DOMAIN f THEN missing
            ELSE flagged(FlagAdd(g, f[player], pos, FLAG_POWER))
       [] msg = 22 ->
            IF player \notin DOMAIN f THEN missing
            ELSE flagged(FlagRemove(g, f[player], pos, FLAG_POWER))
       [] msg = 23 ->
            IF player \notin DOMAIN f THEN missing
            ELSE flagged(remove_with_prob(g, f[player], DOMAIN g))
       [] msg = 24 ->
            IF player \notin DOMAIN f THEN missing
            ELSE flagged(remove_with_prob(g, f[player], drop))
       [] OTHER -> [grid |-> g, fgs |-> f, gold |-> gd, res |-> "Ok"]

\* the receive tasks that have not completed
Outstanding == tasks.recv.spawned + tasks.recv.blocked + tasks.recv.woken

\* a peer's datagram arrives at the server's socket
PeerSend ==
  /\ srv.at = "race"
  /\ sock.left > 0
  /\ \E a \in PlayPeers, b \in PlayBytes :
       sock' = [sock EXCEPT !.inbox = Append(@, [peer |-> a, bytes |-> b]), !.left = @ - 1]
  /\ UNCHANGED <<GameVars, speed, cl, srv, tasks, client, cli>>

\* the reactor finds the socket readable: it wakes the readable() of the
\* receive loop and the receive tasks that wait
Notify ==
  /\ srv.at = "race"
  /\ sock.inbox # <<>>
  /\ ~srv.rdy \/ tasks.recv.blocked > 0
  /\ srv' = [srv EXCEPT !.rdy = TRUE]
  /\ tasks' = [tasks EXCEPT !.recv = [@ EXCEPT !.blocked = 0, !.woken = @ + tasks.recv.blocked]]
  /\ UNCHANGED <<GameVars, speed, cl, sock, client, cli>>

\* the receive loop of the race is polled with its readable() ready: it
\* spawns a receive task while "c <= cl.len()" and waits on a new readable()
RecvSpawn ==
  /\ srv.at = "race"
  /\ srv.rdy
  /\ ~Spawned
  /\ srv' = [srv EXCEPT !.rdy = FALSE, !.c = IF srv.c <= Len(cl) THEN @ + 1 ELSE @]
  /\ tasks' = IF srv.c <= Len(cl) THEN [tasks EXCEPT !.recv.spawned = @ + 1] ELSE tasks
  /\ UNCHANGED <<GameVars, speed, cl, sock, client, cli>>

\* a receive task is polled: recv_from finds no datagram and the task waits,
\* or it takes the first datagram and, for a frame of C2S_SIZE bytes from a
\* client, borrows State and applies it
RecvPoll ==
  /\ srv.at = "race"
  /\ \E from \in {"spawned", "woken"} :
       /\ tasks.recv[from] > 0
       /\ IF sock.inbox = <<>>
          THEN /\ tasks' = [tasks EXCEPT !.recv = [[@ EXCEPT ![from] = @ - 1] EXCEPT !.blocked = @ + 1]]
               /\ UNCHANGED <<grid, fgs, gold, last, srv, sock>>
          ELSE LET d == Head(sock.inbox)
                   known == {i \in 1 .. Len(cl) : cl[i].addr = d.peer}
               IN /\ tasks' = [tasks EXCEPT !.recv[from] = @ - 1]
                  /\ sock' = [sock EXCEPT !.inbox = Tail(@)]
                  /\ IF Len(d.bytes) = C2S_SIZE /\ known # {}
                     THEN IF srv.borrow # 0
                          THEN /\ srv' = [srv EXCEPT !.at = "panic"]
                               /\ UNCHANGED <<grid, fgs, gold, last>>
                          ELSE LET player == cl[CHOOSE i \in known : \A j \in known : i <= j].player IN
                               \E drop \in IF d.bytes[1] = 24
                                           THEN SUBSET {q \in DOMAIN grid : fgs[player].flags[q]}
                                           ELSE {{}} :
                                 LET r == apply_c2s_msg(grid, fgs, gold, player, d.bytes[1],
                                                        d.bytes[2], d.bytes[3], drop)
                                 IN /\ grid' = r.grid
                                    /\ fgs' = r.fgs
                                    /\ gold' = r.gold
                                    /\ last' = [NoOp EXCEPT !.op = "c2s", !.player = player, !.res = r.res]
                                    /\ srv' = [srv EXCEPT !.borrow = release(@ + 1), !.applied = @ + 1]
                     ELSE UNCHANGED <<grid, fgs, gold, last, srv>>
  /\ UNCHANGED <<kings, time, difficulty, controlled, clients, pc, need_to_reeval, scan, simulated,
                 ticks, ops, gold0, grid0, timeline, rng, speed, cl, client, cli>>

(***************************************************************************)
(* The play loop at the fastest speed with peers that send.                *)
(***************************************************************************)
InitPlay == \E n \in 1 .. MaxClients : PlayFrom(n, "Fastest", MaxLoops, PlayFrames, MaxBlocks)

NextPlay ==
  \/ PlayLoop \/ PlayKings \/ PlaySimBegin \/ SimTile \/ SimScan \/ SimMigrate \/ SimFinal
  \/ PlayCast \/ SendPoll \/ SendWritable \/ PeerSend \/ Notify \/ RecvSpawn \/ RecvPoll

SpecPlay == InitPlay /\ [][NextPlay]_vars

\* C17 as stated: when a C2S frame is applied to State, every send of the
\* broadcasts made so far has finished.
C17_AsStated ==
  [][srv'.applied > srv.applied => ~\E s \in tasks.send : s.time <= time]_vars

\* C18: no borrow of State overlaps another: borrow_mut never panics, at most
\* one borrow is out, it is the tick's from kings_move to the broadcast, and
\* none is out while the main task waits in the race, where the send and the
\* receive tasks run.
C18_NoDoubleBorrow ==
  /\ srv.at # "panic"
  /\ srv.at \in {"kings", "sim", "cast"} => srv.borrow = 1
  /\ srv.at \in {"top", "race"} => srv.borrow = 0

\* a tick has run and a frame has been applied, and a send task and a
\* receive task wait on the socket
C18_Witness ==
  /\ srv.at = "race"
  /\ srv.casts >= 1
  /\ srv.applied >= 1
  /\ \E s \in tasks.send : s.st = "blocked"
  /\ tasks.recv.blocked >= 1

\* C19 as stated: the receive tasks spawned and not completed number at most
\* two for every client.
C19_AsStated == Outstanding <= 2 * Len(cl)

(***************************************************************************)
(* The loop of the console client's run.                                   *)
(*   cli.at      "top" at the head of an iteration, "fetch" while fetch_st *)
(*               waits in socket.recv, "timer" while the iteration's timer *)
(*               is awaited, "done" after the loop has been left           *)
(*   cli.time    the loop counter, cli.init the flag of the first snapshot *)
(*   cli.fired   the timer made at the head of the iteration has expired   *)
(*   cli.inbox   the datagrams in the client's socket, each by what        *)
(*               fetch_st makes of it: "state" for Ok(true), "other" for   *)
(*               Ok(false), "bad" for an error                             *)
(*   cli.sent    the IS_ALIVE frames sent; cli.periods the periods of      *)
(*               10 ms gone by since the last one; cli.iter the iterations *)
(***************************************************************************)
Fetched == {"state", "other", "bad"}

InitCli ==
  /\ NoGame
  /\ NoServer
  /\ clients = 1
  /\ client = [at |-> "off"]
  /\ cli = [at |-> "top", time |-> 0, init |-> FALSE, fired |-> FALSE, inbox |-> <<>>,
            sent |-> 0, periods |-> 0, iter |-> 0]

CliFrame ==
  UNCHANGED <<GameVars, speed, cl, srv, tasks, sock, client>>

\* "if time % 50 == 0"
alive_due(t) == t % 50 = 0

\* the head of an iteration: the timer is made, the counter wraps, IS_ALIVE
\* is sent when it is due, the counter moves on
CliTop ==
  /\ cli.at = "top"
  /\ cli.iter < CliLoops
  /\ LET t == IF cli.time >= 1600 THEN 0 ELSE cli.time IN
       cli' = [cli EXCEPT !.at = "fetch", !.fired = FALSE, !.time = t + 1, !.iter = @ + 1,
                          !.sent = IF alive_due(t) THEN @ + 1 ELSE @,
                          !.periods = IF alive_due(t) THEN 0 ELSE @]
  /\ CliFrame

\* fetch_st completes with the first datagram of the socket; before the
\* first snapshot an Ok(true) sets init
CliFetch ==
  /\ cli.at = "fetch"
  /\ cli.inbox # <<>>
  /\ cli' = [cli EXCEPT !.at = "timer", !.inbox = Tail(@),
                        !.init = @ \/ Head(cli.inbox) = "state"]
  /\ CliFrame

\* the timer of the iteration is awaited after fetch_st
CliTimer ==
  /\ cli.at = "timer"
  /\ cli.fired
  /\ cli' = [cli EXCEPT !.at = "top"]
  /\ CliFrame

\* after init, recv_input ends the game on the quit key
CliQuit ==
  /\ cli.at \in {"fetch", "timer"}
  /\ cli.init
  /\ cli' = [cli EXCEPT !.at = "done"]
  /\ CliFrame

\* 10 ms go by while the client waits: the timer of the iteration expires
TenMs ==
  /\ cli.at \in {"fetch", "timer"}
  /\ cli.periods < MaxPeriods
  /\ cli' = [cli EXCEPT !.fired = TRUE, !.periods = @ + 1]
  /\ CliFrame

\* a datagram of the server arrives at the client's socket
SnapArrive ==
  /\ cli.at \in {"fetch", "timer"}
  /\ cli.inbox = <<>>
  /\ \E k \in Fetched : cli' = [cli EXCEPT !.inbox = <<k>>]
  /\ CliFrame

NextCli == CliTop \/ CliFetch \/ CliTimer \/ CliQuit \/ TenMs \/ SnapArrive

SpecCli == InitCli /\ [][NextCli]_vars

\* C20 as stated: a running client has sent IS_ALIVE in its first iteration,
\* and never lets more than 50 periods of 10 ms go by without sending one.
C20_AsStated ==
  cli.at \in {"fetch", "timer"} => cli.sent >= 1 /\ cli.periods <= 50

(***************************************************************************)
(* Properties of the map State::new returns.                               *)
(***************************************************************************)
\* the habitable tiles joined to the tiles of S by steps between habitable
\* hex neighbours
RECURSIVE Joined(_, _)
Joined(g, S) ==
  LET T == S \cup {q \in DOMAIN g : is_habitable(g[q]) /\ \E k \in 1 .. 6 : PosAdd(q, DIRS[k]) \in S}
  IN IF T = S THEN S ELSE Joined(g, T)

\* the tiles with an owner other than NEUTRAL
OwnedTiles(g) == {q \in DOMAIN g : TileOwner(g[q]) # NEUTRAL}

\* C21: in the state State::new returns, the tiles with a non-neutral owner
\* are habitable and lie in one connected component of habitable tiles
\* under hex adjacency.
C21_OwnedConnected ==
  pc.ph \in {"built", "idle"} =>
    /\ \A q \in OwnedTiles(grid) : is_habitable(grid[q])
    /\ \A q \in OwnedTiles(grid) : OwnedTiles(grid) \subseteq Joined(grid, {q})

\* State::new has returned a Rect map with four owned Fortresses, each of
\* them joined to the others around Mountains and Mines
C21_Witness ==
  /\ pc.ph = "idle"
  /\ Cardinality(OwnedTiles(grid)) = 4
  /\ \E q \in DOMAIN grid : grid[q].kind = "Mountain"
  /\ \E q \in OwnedTiles(grid) : OwnedTiles(grid) \subseteq Joined(grid, {q})

\* some round of the generation loop can leave a map that Grid::conflict
\* accepts and Grid::is_connected finds connected
SomeMapPasses(o) ==
  \E k \in 1 .. GenMaps, di \in 0 .. (max_locs(o.shape) - 1), dirs \in DirDraws :
    \E r \in {MapAttempt(o, k, di, dirs, PlayerSeq(o.clients + 1, MAX_PLAYERS - 1),
                         Take(PlayerSeq(1, MAX_PLAYERS - 1), conflict_num(o)), 0)} :
      r.res = "Ok" /\ is_connected(r.grid)

\* C22 as stated: for every requested inequality 0..4, and for None, the
\* map generation loop of State::new can be left: among the maps it draws,
\* one passes the inequality gate of Grid::conflict and Grid::is_connected.
C22_AsStated == pc.ph = "new" => SomeMapPasses(pc.b_opt)

(***************************************************************************)
(* The inequality gate of Grid::conflict on its own: pc holds the scores   *)
(* of the num locations, sorted as eval_result is, the requested           *)
(* inequality and the result.                                              *)
(***************************************************************************)
\* scores eval_locs can give a location: no mine, mines near and far
ScoreSet == {0, 759, 6900, 7000, 13800}

\* the sorted score arrays of num locations
SortedScores(num) ==
  {ev \in [0 .. (num - 1) -> ScoreSet] : \A i \in 1 .. (num - 1) : ev[i - 1] <= ev[i]}

InitGate ==
  /\ grid = <<>>
  /\ fgs = <<>>
  /\ kings = <<>>
  /\ gold = [q \in Players |-> 0]
  /\ time = 0
  /\ difficulty = "Normal"
  /\ controlled = 1
  /\ clients = 1
  /\ NoNet
  /\ \E num \in 2 .. 4, k \in 0 .. 4 :
       \E ev \in SortedScores(num) :
         pc = [ph |-> "gate", n |-> 1, ev |-> ev, num |-> num,
               ineq |-> [some |-> TRUE, k |-> k], res |-> "none"]
  /\ need_to_reeval = FALSE
  /\ scan = <<1, 1>>
  /\ simulated = FALSE
  /\ ticks = 0
  /\ ops = 0
  /\ last = NoOp
  /\ gold0 = [q \in Players |-> 0]
  /\ grid0 = <<>>
  /\ timeline = timeline_new(time)
  /\ rng = 0

\* "if let Some(ineq) = ineq" of Grid::conflict
GateApply ==
  /\ pc.ph = "gate"
  /\ pc' = [pc EXCEPT !.ph = "gated",
                      !.res = IF ineq_gate(pc.ev, pc.num, pc.ineq) THEN "Ok" ELSE "ConflictDiffOutOfBound"]
  /\ UNCHANGED <<grid, fgs, kings, gold, time, difficulty, controlled, clients, speed, cl, srv, tasks, sock, client, cli,
                 need_to_reeval, scan, simulated, ticks, ops, last, gold0, grid0, timeline, rng>>

NextGate == GateApply

SpecGate == InitGate /\ [][NextGate]_vars

\* C23 as stated: with a mean other than 0, the gate accepts inequality k
\* exactly when the integer part of 1000 * sigma / mu, sigma the population
\* standard deviation of the num scores, lies in bucket k, and returns
\* ConflictDiffOutOfBound otherwise.
C23_AsStated ==
  (pc.ph = "gated" /\ score_sum(pc.ev, pc.num) > 0) =>
    (pc.res = "Ok" <=> pc.ineq.k = x_bucket(pc.ev, pc.num, pc.num))

\* r clamped to lo .. hi
Clamp(r, lo, hi) == IF r < lo THEN lo ELSE IF r > hi THEN hi ELSE r

\* C24 as stated: in single-player with conditions = c, the human's starting
\* location has score rank num - c clamped to 0 .. num - 1, 0 the worst: its
\* score is the one at that place of the sorted scores.
C24_AsStated ==
  (pc.ph = "built" /\ pc.b_opt.conditions.some /\ pc.b_opt.clients = 1) =>
    LET num == Len(pc.chosen)
        r == Clamp(num - pc.b_opt.conditions.c, 0, num - 1)
        lower(h) == Cardinality({j \in 1 .. num : pc.scores[j - 1] < pc.scores[h - 1]})
        upto(h) == Cardinality({j \in 1 .. num : pc.scores[j - 1] <= pc.scores[h - 1]})
    IN \E h \in 1 .. num :
         /\ grid[pc.chosen[h]].owner = 1
         /\ lower(h) <= r
         /\ r < upto(h)

(***************************************************************************)
(* The timeline: State::update_timeline called again and again, before and *)
(* after a State::simulate.                                                *)
(***************************************************************************)

InitTimeline == \E s \in Scenarios : InitWith(s)

\* State::update_timeline: Timeline::update with the time and the grid of the
\* State; an index outside the arrays ends the program
UpdateTimeline ==
  /\ pc = Idle
  /\ LET r == timeline_update(timeline, time, grid)
     IN /\ timeline' = r.tl
        /\ pc' = IF r.panic THEN [pc EXCEPT !.ph = "out of bounds"] ELSE pc
  /\ UNCHANGED <<grid, fgs, kings, gold, time, difficulty, controlled, clients, speed, cl, srv, tasks, sock, client, cli,
                 need_to_reeval, scan, simulated, ticks, ops, last, gold0, grid0, rng>>

NextTimeline == Simulate \/ UpdateTimeline

SpecTimeline == InitTimeline /\ [][NextTimeline]_vars

\* C26: however often Timeline::update is called, mark stays an index of
\* the arrays and no call ends in an access outside them
C26_AsStated == timeline.mark \in Marks /\ pc.ph # "out of bounds"


(***************************************************************************)
(* State::new called twice with the same options, seed included, while the *)
(* process draws from fastrand's generator in between.                     *)
(***************************************************************************)

\* the states of the generator, reduced
RngMod == 8

RngStates == 0 .. (RngMod - 1)

\* the seeds of BasicOpts
Seeds == 0 .. 2

\* the State::new calls of a run
MaxCalls == 2

\* a draw moves the generator on by an odd increment and hashes the new state
rng_step(s) == (s + 5) % RngMod

rng_out(s) == (s * 7 + 3) % RngMod

RECURSIVE rng_after(_, _)
rng_after(s, n) == IF n = 0 THEN s ELSE rng_after(rng_step(s), n - 1)

\* fastrand::..(..m) as the n-th draw from state s
draw(s, n, m) == rng_out(rng_after(s, n)) % m

\* a seed call that leaves the generator as it was
seed_rng_kept(s, seed) == s

\* fastrand::seed: the state is the seed, whatever it was
seed_rng(s, seed) == seed % RngMod

\* DirDraws and Shuffles as the draws select them
DirDrawSeq == <<<<1, 3, 2, 4>>, <<5, 6, 1, 2>>>>

shuffle_by(sq, b) == IF b = 0 THEN sq ELSE [i \in 1 .. Len(sq) |-> sq[Len(sq) + 1 - i]]

\* the draws of one round of the generation loop
RoundDraws == 6

\* one round of the generation loop from generator state s: the tiles of
\* Tile::new, then di, the mine directions, the shuffles and ihuman of
\* Grid::conflict
seeded_attempt(o, s) ==
  LET players == PlayerSeq(o.clients + 1, MAX_PLAYERS - 1)
      ui_players == PlayerSeq(1, o.clients)
      num == conflict_num(o)
  IN MapAttempt(o, 1 + draw(s, 1, GenMaps), draw(s, 2, max_locs(o.shape)), DirDrawSeq[1 + draw(s, 3, 2)],
                IF o.clients > 1 THEN players ELSE shuffle_by(players, draw(s, 4, 2)),
                IF o.clients > 1 THEN shuffle_by(Take(ui_players \o players, num), draw(s, 5, 2)) ELSE <<>>,
                IF o.clients > 1 \/ o.conditions.some THEN 0 ELSE draw(s, 6, 2) * (num - 1))

\* the generation loop of State::new from generator state s: the first map
\* accepted, within left rounds
RECURSIVE seeded_loop(_, _, _)
seeded_loop(o, s, left) ==
  IF left = 0 THEN [ok |-> FALSE, grid |-> <<>>, s |-> s]
  ELSE LET r == seeded_attempt(o, s)
       IN IF r.res = "Ok" /\ is_connected(r.grid)
          THEN [ok |-> TRUE, grid |-> r.grid, s |-> rng_after(s, RoundDraws)]
          ELSE seeded_loop(o, rng_after(s, RoundDraws), left - 1)

\* State::new: time drawn from the generator as it stands, then the seed,
\* then the map, the flag grids, the kings and the timeline
state_new(o, s) ==
  LET t == (1850 + draw(s, 1, 100)) * 360 + draw(s, 2, 360)
      m == seeded_loop(o, seed_rng(rng_after(s, 2), o.seed), RngMod)
  IN [ok |-> m.ok, grid |-> m.grid, time |-> t, s |-> m.s]

SeedOptions ==
  {o @@ [seed |-> sd] : o \in {BasicOpts("Rect", 4, 0, 1, -1), BasicOpts("Rhombus", 4, 0, 2, -1)}, sd \in Seeds}

InitSeed ==
  \E o \in SeedOptions, s \in RngStates :
    /\ GenFrom(o)
    /\ pc = [ph |-> "new", n |-> 1, b_opt |-> o, first |-> <<>>, pre |-> <<>>]
    /\ rng = s

\* one call of State::new; pc keeps the grid of the first call and the
\* generator states the calls found
SeedNew ==
  /\ pc.ph = "new"
  /\ LET r == state_new(pc.b_opt, rng)
     IN /\ r.ok
        /\ grid' = r.grid
        /\ time' = r.time
        /\ rng' = r.s
        /\ fgs' = [q \in Players |-> FlagGridNew(r.grid)]
        /\ kings' = KingsNew(r.grid, clients)
        /\ timeline' = timeline_new(r.time)
        /\ pc' = [pc EXCEPT !.ph = "made", !.first = IF pc.n = 1 THEN r.grid ELSE @,
                            !.pre = Append(@, rng)]
  /\ UNCHANGED <<gold, difficulty, controlled, clients, speed, cl, srv, tasks, sock, client, cli,
                 need_to_reeval, scan, simulated, ticks, ops, last, gold0, grid0>>

\* the process draws from the generator, then calls State::new again
SeedBetween ==
  /\ pc.ph = "made"
  /\ pc.n < MaxCalls
  /\ \E s \in RngStates : rng' = s
  /\ pc' = [pc EXCEPT !.ph = "new", !.n = @ + 1]
  /\ UNCHANGED <<grid, fgs, kings, gold, time, difficulty, controlled, clients, speed, cl, srv, tasks, sock, client, cli,
                 need_to_reeval, scan, simulated, ticks, ops, last, gold0, grid0, timeline>>

NextSeed == SeedNew \/ SeedBetween

SpecSeed == InitSeed /\ [][NextSeed]_vars

\* C25: a State::new call with the options and the seed of an earlier call
\* builds the grid the earlier call built, whatever the generator held
\* before either call
C25_SameSeedSameGrid == (pc.ph = "made" /\ pc.n > 1) => grid = pc.first

\* the second call has returned, and the two calls found the generator in
\* different states
C25_Witness == pc.ph = "made" /\ pc.n = 2 /\ pc.pre[1] # pc.pre[2] /\ grid = pc.first


(***************************************************************************)
(* The layout of the wire structs: the packed structs with their explicit  *)
(* padding against the repr(C) structs of the same fields.                 *)
(***************************************************************************)

\* a field of a struct: its name, its size and its alignment in bytes
Field(nm, sz, al) == [name |-> nm, size |-> sz, align |-> al]

\* the first multiple of al at or above at
align_up(at, al) == ((at + al - 1) \div al) * al

\* repr(C): where field i of fs starts when the fields before it start at
\* their aligned offsets
RECURSIVE c_offset(_, _)
c_offset(fs, i) ==
  IF i = 1 THEN 0
  ELSE align_up(c_offset(fs, i - 1) + fs[i - 1].size, fs[i].align)

RECURSIVE max_align(_, _)
max_align(fs, i) == IF i = 0 THEN 1 ELSE Max(fs[i].align, max_align(fs, i - 1))

\* repr(C): the size is the end of the last field, rounded up to the
\* alignment of the struct
c_size(fs) == align_up(c_offset(fs, Len(fs)) + fs[Len(fs)].size, max_align(fs, Len(fs)))

\* repr(C, packed): every field starts where the one before it ends
RECURSIVE packed_offset(_, _)
packed_offset(fs, i) == IF i = 1 THEN 0 ELSE packed_offset(fs, i - 1) + fs[i - 1].size

packed_size(fs) == packed_offset(fs, Len(fs)) + fs[Len(fs)].size

\* the index of the field called nm
field_index(fs, nm) == CHOOSE i \in 1 .. Len(fs) : fs[i].name = nm

\* offset_of! on a repr(C) and on a packed struct
c_offset_of(fs, nm) == c_offset(fs, field_index(fs, nm))

packed_offset_of(fs, nm) == packed_offset(fs, field_index(fs, nm))

\* UnsafeC2SData and C2SData
UnsafeC2SData == <<Field("x", 1, 1), Field("y", 1, 1), Field("msg", 1, 1)>>

C2SData == <<Field("x", 1, 1), Field("y", 1, 1), Field("msg", 1, 1)>>

\* UnsafeS2CData for MAX_WIDTH w, MAX_HEIGHT h and MAX_PLAYERS pl
UnsafeS2CData(w, h, pl) ==
  <<Field("player", 1, 1), Field("pause_request", 1, 1), Field("gold", 4 * pl, 4), Field("time", 4, 4),
    Field("width", 1, 1), Field("height", 1, 1), Field("flag", w * h, 1), Field("owner", w * h, 1),
    Field("pop", 2 * w * h, 2), Field("tile", w * h, 1)>>

\* __S2C_PAD_0_LEN, __S2C_PAD_1_LEN and __S2C_PAD_2_LEN
S2C_PAD_0_LEN(w, h, pl) ==
  c_offset_of(UnsafeS2CData(w, h, pl), "gold") - c_offset_of(UnsafeS2CData(w, h, pl), "pause_request") - 1

S2C_PAD_1_LEN(w, h, pl) ==
  c_offset_of(UnsafeS2CData(w, h, pl), "pop") - c_offset_of(UnsafeS2CData(w, h, pl), "owner") - w * h

S2C_PAD_2_LEN(w, h, pl) ==
  c_size(UnsafeS2CData(w, h, pl)) - c_offset_of(UnsafeS2CData(w, h, pl), "tile") - w * h

\* S2CData without its padding fields
S2CData_unpadded(w, h, pl) ==
  <<Field("player", 1, 1), Field("pause_request", 1, 1), Field("gold", 4 * pl, 1), Field("time", 4, 1),
    Field("width", 1, 1), Field("height", 1, 1), Field("flag", w * h, 1), Field("owner", w * h, 1),
    Field("pop", 2 * w * h, 1), Field("tile", w * h, 1)>>

\* S2CData: packed, with __pad0, __pad1 and __pad2
S2CData(w, h, pl) ==
  <<Field("player", 1, 1), Field("pause_request", 1, 1), Field("__pad0", S2C_PAD_0_LEN(w, h, pl), 1),
    Field("gold", 4 * pl, 1), Field("time", 4, 1),
    Field("width", 1, 1), Field("height", 1, 1), Field("flag", w * h, 1), Field("owner", w * h, 1),
    Field("__pad1", S2C_PAD_1_LEN(w, h, pl), 1),
    Field("pop", 2 * w * h, 1), Field("tile", w * h, 1), Field("__pad2", S2C_PAD_2_LEN(w, h, pl), 1)>>

\* the fields the layout tests compare
S2CNames == {"player", "pause_request", "gold", "time", "width", "height", "flag", "owner", "pop", "tile"}

C2SNames == {"x", "y", "msg"}

\* the sizes and offsets size_of and offset_of! give for the fields fs of a
\* struct, repr(C) or packed
layout_of(fs, names, packed) ==
  [size |-> IF packed THEN packed_size(fs) ELSE c_size(fs),
   offset |-> [nm \in names |-> IF packed THEN packed_offset_of(fs, nm) ELSE c_offset_of(fs, nm)]]

\* the values of MAX_WIDTH, MAX_HEIGHT and MAX_PLAYERS the structs are laid
\* out for: those of the crate among them
LayoutWidths == {1, 2, 3, 40}

LayoutHeights == {1, 2, 3, 29}

LayoutPlayers == 1 .. 8

InitLayout ==
  /\ grid = <<>>
  /\ fgs = <<>>
  /\ kings = <<>>
  /\ gold = [q \in Players |-> 0]
  /\ time = 0
  /\ difficulty = "Normal"
  /\ controlled = 1
  /\ clients = 1
  /\ NoNet
  /\ \E w \in LayoutWidths, h \in LayoutHeights, pl \in LayoutPlayers :
       pc = [ph |-> "layout", n |-> 1, w |-> w, h |-> h, pl |-> pl, s2c |-> <<>>, c2s |-> <<>>]
  /\ need_to_reeval = FALSE
  /\ scan = <<1, 1>>
  /\ simulated = FALSE
  /\ ticks = 0
  /\ ops = 0
  /\ last = NoOp
  /\ gold0 = [q \in Players |-> 0]
  /\ grid0 = <<>>
  /\ timeline = <<>>
  /\ rng = 0

\* tests::s2c_data_layout and tests::c2s_data_layout: the layouts of the
\* packed struct and of the repr(C) struct, side by side
LayoutApply ==
  /\ pc.ph = "layout"
  /\ pc' = [pc EXCEPT !.ph = "laid",
                      !.s2c = [packed |-> layout_of(S2CData(pc.w, pc.h, pc.pl), S2CNames, TRUE),
                               c |-> layout_of(UnsafeS2CData(pc.w, pc.h, pc.pl), S2CNames, FALSE)],
                      !.c2s = [packed |-> layout_of(C2SData, C2SNames, TRUE),
                               c |-> layout_of(UnsafeC2SData, C2SNames, FALSE)]]
  /\ UNCHANGED <<grid, fgs, kings, gold, time, difficulty, controlled, clients, speed, cl, srv, tasks, sock, client, cli,
                 need_to_reeval, scan, simulated, ticks, ops, last, gold0, grid0, timeline, rng>>

NextLayout == LayoutApply

SpecLayout == InitLayout /\ [][NextLayout]_vars

\* C27: C2SData and S2CData have the total size and the field offsets of
\* the naturally aligned repr(C) structs with the same fields
C27_LayoutsAgree == pc.ph = "laid" => (pc.s2c.packed = pc.s2c.c /\ pc.c2s.packed = pc.c2s.c)

\* the structs of the crate (40 by 29 tiles, 8 players) laid out, with
\* padding before gold and at the end
C27_Witness ==
  /\ pc.ph = "laid" /\ pc.w = 40 /\ pc.h = 29 /\ pc.pl = 8
  /\ pc.s2c.packed.offset["gold"] = 4
  /\ pc.s2c.packed.size > pc.s2c.packed.offset["tile"] + 40 * 29


(***************************************************************************)
(* The order of the steps inside one State::simulate.                      *)
(***************************************************************************)

\* the tiles the first loop of the running simulate has dealt with
TilesDone ==
  IF pc.ph = "tiles" THEN {ScanOrder(grid)[n] : n \in 1 .. (pc.n - 1)}
  ELSE IF pc.ph \in {"scan", "migrate"} THEN DOMAIN grid
  ELSE {}

\* C28 as stated: the owner the first loop gives a Mine is the one its
\* habitable neighbours had when the simulate began, before the combat and
\* the ownership refresh of any tile
C28_AsStated ==
  \A q \in TilesDone : grid[q].kind = "Mine" => TileOwner(grid[q]) = mine_owner(grid0, q)


\* C29 as stated: on every habitable tile the first loop of a simulate
\* comes to, the first one after State::new included, total_pop (slot 0) is
\* the sum of the slots of the players, so that no total_pop - units[p] is
\* negative
C29_AsStated ==
  (pc.ph = "tiles" /\ is_habitable(grid[CurTile])) =>
    /\ grid[CurTile].units[0] = SumUnits(grid[CurTile].units, 1, MAX_PLAYERS - 1)
    /\ \A q \in RealPlayers : grid[CurTile].units[0] - grid[CurTile].units[q] >= 0


(***************************************************************************)
(* The enemy signal of the flag policies of the kings.                     *)
(***************************************************************************)

\* C30 as stated: whenever the kings may move, the enemy a flag policy of
\* king pl sees on a habitable tile is total - army, total the sum of the
\* populations of the players 1 and up and army the population of pl
C30_AsStated ==
  pc = Idle =>
    \A q \in DOMAIN grid, i \in DOMAIN kings :
      is_habitable(grid[q]) =>
        king_enemy(grid[q].units, kings[i].player) =
          SumUnits(grid[q].units, 1, MAX_PLAYERS - 1) - grid[q].units[kings[i].player]


(***************************************************************************)
(* The flag policies of the kings on their own: one king of player 2 on a  *)
(* strip of Grassland where player 1 stands with 10 units on every tile,   *)
(* place_flags called again after the army of one tile has changed.        *)
(***************************************************************************)

PolicyW == 3

PolicyH == 2

\* the calls of place_flags in one run
MaxPolicyCalls == 2

PolicyPos == (0 .. (PolicyW - 1)) \X (0 .. (PolicyH - 1))

\* the armies of the king's player: perfect squares
PolicyArmies == {0, 4, 16}

\* the value the king gives every tile
PolicyVals == {4, 25}

PolicyStrategies == {"Noble", "OneGreedy", "PersistentGreedy"}

\* a tile as a simulate leaves it: 10 units of player 1, a of player 2
PolicyTile(a) == Habitable("Grassland", UnitsOf(a + 10, 10, a, 0), IF a > 10 THEN 2 ELSE 1)

InitPolicy ==
  \E army \in [PolicyPos -> PolicyArmies], val \in PolicyVals, st \in PolicyStrategies :
    /\ grid = [q \in PolicyPos |-> PolicyTile(army[q])]
    /\ fgs = [q \in Players |-> FlagGridNew(grid)]
    /\ kings = <<[player |-> 2, strategy |-> st, values |-> [q \in PolicyPos |-> val]]>>
    /\ clients = 1
    /\ NoNet
    /\ gold = [q \in Players |-> 0]
    /\ time = 0
    /\ difficulty = "Normal"
    /\ controlled = 1
    /\ pc = [ph |-> "policy", n |-> 0, step |-> "start", was |-> {}]
    /\ need_to_reeval = FALSE
    /\ scan = <<1, 1>>
    /\ simulated = TRUE
    /\ ticks = 0
    /\ ops = 0
    /\ last = NoOp
    /\ gold0 = [q \in Players |-> 0]
    /\ grid0 = <<>>
    /\ timeline = timeline_new(time)
    /\ rng = 0

\* the tiles a flag grid has flagged
Flagged(fg) == {q \in DOMAIN fg.flags : fg.flags[q]}

\* King::place_flags of the king; pc keeps the flags it found
PolicyPlace ==
  /\ pc.ph = "policy"
  /\ pc.step \in {"start", "fought"}
  /\ pc.n < MaxPolicyCalls
  /\ ~(kings[1].strategy = "Noble" /\ noble_panics(grid, kings[1]))
  /\ fgs' = [fgs EXCEPT ![kings[1].player] = place_flags(grid, kings[1], @)]
  /\ pc' = [pc EXCEPT !.n = @ + 1, !.step = "placed", !.was = Flagged(fgs[kings[1].player])]
  /\ UNCHANGED <<grid, kings, gold, time, difficulty, controlled, clients, speed, cl, srv, tasks, sock, client, cli,
                 need_to_reeval, scan, simulated, ticks, ops, last, gold0, grid0, timeline, rng>>

\* King::place_flags of a Noble king ending in the panic of PosVal::insert
PolicyPanic ==
  /\ pc.ph = "policy"
  /\ pc.step \in {"start", "fought"}
  /\ pc.n < MaxPolicyCalls
  /\ kings[1].strategy = "Noble"
  /\ noble_panics(grid, kings[1])
  /\ pc' = [pc EXCEPT !.ph = "panic"]
  /\ UNCHANGED <<grid, fgs, kings, gold, time, difficulty, controlled, clients, speed, cl, srv, tasks, sock, client, cli,
                 need_to_reeval, scan, simulated, ticks, ops, last, gold0, grid0, timeline, rng>>

\* the game between two calls: the army on one tile becomes another
PolicyBattle ==
  /\ pc.ph = "policy"
  /\ pc.step = "placed"
  /\ pc.n < MaxPolicyCalls
  /\ \E q \in PolicyPos, a \in PolicyArmies :
       /\ a # grid[q].units[kings[1].player]
       /\ grid' = [grid EXCEPT ![q] = PolicyTile(a)]
  /\ pc' = [pc EXCEPT !.step = "fought"]
  /\ UNCHANGED <<fgs, kings, gold, time, difficulty, controlled, clients, speed, cl, srv, tasks, sock, client, cli,
                 need_to_reeval, scan, simulated, ticks, ops, last, gold0, grid0, timeline, rng>>

NextPolicy == PolicyPlace \/ PolicyPanic \/ PolicyBattle

SpecPolicy == InitPolicy /\ [][NextPolicy]_vars

\* the place of a tile in the scan of the policies
ScanIndex(q) == CHOOSE n \in 1 .. Len(ScanOrder(grid)) : ScanOrder(grid)[n] = q

\* the score of the Noble policy on tile q, and the tiles that qualify
NobleScore(q) == noble_v(kings[1].values[q], grid[q].units, kings[1].player)

NobleQualifies ==
  {q \in DOMAIN grid :
     /\ is_habitable(grid[q])
     /\ king_enemy(grid[q].units, kings[1].player) > grid[q].units[kings[1].player]
     /\ NobleScore(q) > 7000}

\* the NOBLE_LEN best of them: fewer than NOBLE_LEN qualifying tiles score
\* higher, or as high and come earlier in the scan
NobleBest ==
  {q \in NobleQualifies :
     Cardinality({r \in NobleQualifies :
                    \/ NobleScore(r) > NobleScore(q)
                    \/ NobleScore(r) = NobleScore(q) /\ ScanIndex(r) < ScanIndex(q)}) < NOBLE_LEN}

\* C31 as stated: place_flags of a Noble king completes for any number of
\* qualifying tiles, and the tiles that get a flag are the min(5, n) best
\* qualifying ones
C31_AsStated ==
  kings[1].strategy = "Noble" =>
    /\ pc.ph # "panic"
    /\ (pc.ph = "policy" /\ pc.step = "placed") =>
         Flagged(fgs[kings[1].player]) = pc.was \cup NobleBest


\* the score of the OneGreedy policy on tile q
OneGreedyScore(q) ==
  one_greedy_x(kings[1].values[q], grid[q].units, kings[1].player) * exact_sqrt(grid[q].units[kings[1].player])

PersistentAbove(q, t) ==
  PowScoreAbove(persistent_half(kings[1].values[q], grid[q].units, kings[1].player),
                grid[q].units[kings[1].player], t)

PersistentBelow(q, t) ==
  PowScoreBelow(persistent_half(kings[1].values[q], grid[q].units, kings[1].player),
                grid[q].units[kings[1].player], t)

HeldTile(l, o) == Habitable(l, [NoUnits EXCEPT ![0] = 20, ![o] = 20], o)

KingBuildScenarios ==
  {[grid |-> GridOf(HeldTile(l, o), HeldTile(l2, 2),
                    IF o2 = 0 THEN Mountain ELSE HeldTile("Grassland", o2), Mine(2)),
    gold |-> GoldOf(0, gd, 0), difficulty |-> "Normal", simulated |-> TRUE]
     : l \in Lands, o \in 1 .. 2, l2 \in {"Grassland", "Town", "Fortress"}, o2 \in 0 .. 2, gd \in BuildGolds}

InitKingBuild ==
  \E s \in KingBuildScenarios, st \in {"Opportunist", "Midas"} :
    /\ grid = s.grid
    /\ fgs = [q \in Players |-> FlagGridNew(s.grid)]
    /\ kings = <<KingNew(s.grid, 2, st)>>
    /\ clients = 1
    /\ NoNet
    /\ gold = s.gold
    /\ time = 0
    /\ difficulty = s.difficulty
    /\ controlled = 1
    /\ pc = Idle
    /\ need_to_reeval = FALSE
    /\ scan = <<1, 1>>
    /\ simulated = s.simulated
    /\ ticks = 0
    /\ ops = 0
    /\ last = NoOp
    /\ gold0 = [q \in Players |-> 0]
    /\ grid0 = <<>>
    /\ timeline = timeline_new(time)
    /\ rng = 0

\* King::build of the first king with the gold of its country
KingBuilds ==
  /\ pc.ph = "idle"
  /\ ops < MaxBuilds
  /\ LET r == KingBuild(grid, gold, kings[1]) IN
       /\ grid' = r.grid
       /\ gold' = r.gold
       /\ last' = [NoOp EXCEPT !.op = "king_build", !.player = kings[1].player, !.res = r.res]
  /\ ops' = ops + 1
  /\ UNCHANGED <<fgs, kings>>
  /\ OpFrame

NextKingBuild == KingBuilds

SpecKingBuild == InitKingBuild /\ [][NextKingBuild]_vars

\* the tiles a step changes
ChangedTiles == {q \in DOMAIN grid : grid'[q] # grid[q]}

\* the king's player owns tile q and every habitable tile around it
OwnsAround(q, p) ==
  /\ is_habitable(grid[q])
  /\ TileOwner(grid[q]) = p
  /\ \A d \in 1 .. 6 : IsHabAt(grid, PosAdd(q, DIRS[d])) => TileOwner(grid[PosAdd(q, DIRS[d])]) = p

\* tile q goes up one level and the country of p pays for it, nothing else changes
UpgradedAndPaid(q, p) ==
  /\ is_habitable(grid[q])
  /\ grid[q].land # "Fortress"
  /\ grid' = [grid EXCEPT ![q].land = NextLevel(grid[q].land)]
  /\ gold' = [gold EXCEPT ![p] = @ - LevelPrice(NextLevel(grid[q].land))]
  /\ gold[p] >= LevelPrice(NextLevel(grid[q].land))

\* C34: a call of King::build changes at most one tile; that tile is
\* habitable, no Fortress, owned by the king's player like every habitable
\* tile around it; the call returns true exactly when the tile went up one
\* level and the country paid the price, and otherwise leaves grid and gold
\* as they were
C34_KingBuild ==
  [][(last'.op = "king_build" /\ ops' = ops + 1) =>
       /\ Cardinality(ChangedTiles) <= 1
       /\ \A q \in ChangedTiles : OwnsAround(q, last'.player) /\ grid[q].land # "Fortress"
       /\ (last'.res = "Ok") <=> (\E q \in DOMAIN grid : OwnsAround(q, last'.player) /\ UpgradedAndPaid(q, last'.player))
       /\ (last'.res # "Ok") => (grid' = grid /\ gold' = gold)]_vars

\* the king has built a Town and then a Fortress and paid for both
C34_Witness ==
  /\ last.op = "king_build" /\ last.res = "Ok" /\ ops = 2
  /\ \E q \in DOMAIN grid : is_habitable(grid[q]) /\ grid[q].land = "Fortress" /\ TileOwner(grid[q]) = 2
  /\ gold[2] = 720 - PRICE_TOWN - PRICE_FORTRESS


(***************************************************************************)
(* apply_c2s_msg on its own: two clients send every kind of message for    *)
(* positions in and out of the grid.                                       *)
(***************************************************************************)
MaxMsgs == 2

\* IS_ALIVE, BUILD, FLAG_ON, FLAG_OFF, FLAG_OFF_ALL, FLAG_OFF_HALF and a byte
\* that is no message
ApplyMsgs == {1, 20, 21, 22, 23, 24, 77}

\* the x and y bytes of a frame: in the grid and the largest byte
ApplyCoords == {0, 1, 255}

ApplyScenarios ==
  {[grid |-> GridOf(HeldTile(l, o), HeldTile("Grassland", 2), Mountain, Mine(1)),
    gold |-> GoldOf(gd, 400, 0), difficulty |-> "Normal", simulated |-> TRUE]
     : l \in Lands, o \in 1 .. 2, gd \in BuildGolds}

InitApply ==
  \E s \in ApplyScenarios : GameFrom(s, [q \in Players |-> FlagGridNew(s.grid)], 2) /\ NoNet

\* recv_fut has found the client of player p and calls apply_c2s_msg
ApplyMsg ==
  /\ pc.ph = "idle"
  /\ ops < MaxMsgs
  /\ \E p \in 1 .. clients, msg \in ApplyMsgs, x \in ApplyCoords, y \in ApplyCoords :
       \E drop \in IF msg = 24 THEN SUBSET Flagged(fgs[p]) ELSE {{}} :
         LET r == apply_c2s_msg(grid, fgs, gold, p, msg, x, y, drop) IN
           /\ grid' = r.grid
           /\ fgs' = r.fgs
           /\ gold' = r.gold
           /\ last' = [op |-> "c2s", player |-> p, pos |-> <<x, y>>, res |-> r.res,
                       was_empty |-> FALSE, undoes |-> FALSE, msg |-> msg]
  /\ ops' = ops + 1
  /\ UNCHANGED kings
  /\ OpFrame

NextApply == ApplyMsg

SpecApply == InitApply /\ [][NextApply]_vars

\* C35: apply_c2s_msg for the client of player p changes at most the flag
\* grid of p, the gold of country p and the land of one tile p owns; the flag
\* grids and gold of the others, every population and owner and the time
\* stay, and a message that is none of the five or that fails changes nothing
C35_ApplyScope ==
  [][(last'.op = "c2s" /\ ops' = ops + 1) =>
       LET p == last'.player IN
       /\ \A q \in Players \ {p} : fgs'[q] = fgs[q] /\ gold'[q] = gold[q]
       /\ Cardinality(ChangedTiles) <= 1
       /\ \A t \in ChangedTiles :
            /\ is_habitable(grid[t])
            /\ TileOwner(grid[t]) = p
            /\ grid'[t] = [grid[t] EXCEPT !.land = grid'[t].land]
       /\ time' = time
       /\ (last'.msg \notin 20 .. 24 \/ last'.res # "Ok") =>
            (grid' = grid /\ fgs' = fgs /\ gold' = gold)]_vars

\* player 1 has built with a flag of player 2 standing
C35_Witness ==
  /\ last.op = "c2s" /\ last.msg = 20 /\ last.res = "Ok" /\ last.player = 1
  /\ Flagged(fgs[2]) # {}
  /\ \E t \in DOMAIN grid : is_habitable(grid[t]) /\ TileOwner(grid[t]) = 1 /\ grid[t].land = "Town"


(***************************************************************************)
(* One simulate on a map where player 1 has flagged the tile B and         *)
(* holds one tile A next to it, B being empty or nearly full.              *)
(***************************************************************************)
MigW == 3
MigH == 2
MigPos == (0 .. (MigW - 1)) \X (0 .. (MigH - 1))
MigB == <<1, 0>>

\* the tiles around pos
NextTo(pos) == {PosAdd(pos, DIRS[d]) : d \in 1 .. 6}

\* a Grassland tile that player 1 holds with n units, empty for n = 0
ArmyTile(n) == IF n = 0 THEN Grass ELSE Habitable("Grassland", UnitsOf(n, n, 0, 0), 1)

MigScenarios ==
  {[q \in MigPos |-> CASE q = a -> ArmyTile(n[1])
                       [] q = MigB -> ArmyTile(n[2])
                       [] OTHER -> rest]
     : a \in NextTo(MigB) \cap MigPos, n \in {<<100, 0>>, <<480, 480>>},
       rest \in {Grass, Mountain}}

InitMigrate ==
  \E g \in MigScenarios :
    /\ GameFrom([grid |-> g, gold |-> GoldOf(0, 0, 0), difficulty |-> "Normal", simulated |-> TRUE],
                [q \in Players |-> IF q = 1 THEN FlagAdd(g, FlagGridNew(g), MigB, FLAG_POWER)
                                   ELSE FlagGridNew(g)], 1)
    /\ NoNet

NextMigrate == SimBegin \/ SimTile \/ SimScan \/ SimMigrate \/ SimFinal

SpecMigrate == InitMigrate /\ [][NextMigrate]_vars

\* before the simulate that is about to end, a was a Grassland tile with 100
\* units of player 1 and nothing else, b an empty habitable tile next to it
\* with the only flag of player 1, and no other tile held units
FlagScene(a, b) ==
  /\ grid0[a] = ArmyTile(100)
  /\ b \in NextTo(a)
  /\ IsHabAt(grid0, b)
  /\ Flagged(fgs[1]) = {b}
  /\ fgs[1] = FlagAdd(grid0, FlagGridNew(grid0), b, FLAG_POWER)
  /\ \A q \in DOMAIN grid0 \ {a} : grid0[q].units = NoUnits

\* C36: from a Grassland tile A with 100 units of player 1, an empty
\* habitable neighbour B and the only flag of player 1 at B with power 8, one
\* simulate ends with at least 5 units of player 1 on B and at most 95 on A,
\* whatever the scan direction, the direction shifts and the roundings were
C36_FlagDraws ==
  [][pc.ph = "final" =>
       \A a \in DOMAIN grid, b \in DOMAIN grid :
         FlagScene(a, b) => grid'[b].units[1] >= 5 /\ grid'[a].units[1] <= 95]_vars

\* such a simulate has ended with units on A, on B and on a tile beyond B
C36_Witness ==
  /\ pc.ph = "final"
  /\ \E a \in DOMAIN grid, b \in DOMAIN grid :
       /\ FlagScene(a, b)
       /\ grid[a].units[1] > 0 /\ grid[a].units[1] < 60
       /\ grid[b].units[1] < 45
       /\ \E q \in NextTo(b) \ {a} : IsHabAt(grid, q) /\ grid[q].units[1] > 0

\* the units of player p on the whole map
TotalUnits(g, p) == SumOver([q \in DOMAIN g |-> g[q].units[p]], DOMAIN g)

\* C39: the migration pass conserves population: for every player the sum of
\* its units over all tiles is the same after each tile of the pass as before
C39_Conserved ==
  [][pc.ph = "migrate" => \A p \in RealPlayers : TotalUnits(grid', p) = TotalUnits(grid, p)]_vars

\* a pass has ended in which B was filled up to MAX_POPULATION while units
\* moved on to a third tile
C39_Witness ==
  /\ pc.ph = "final"
  /\ grid0[MigB].units[1] = 480
  /\ grid[MigB].units[1] = MAX_POPULATION
  /\ \E q \in DOMAIN grid : grid0[q].units[1] = 0 /\ grid[q].units[1] > 0


(***************************************************************************)
(* The starting locations State::new leaves on the map.                    *)
(***************************************************************************)
\* the Fortresses of the grid
Fortresses == {q \in DOMAIN grid : is_habitable(grid[q]) /\ grid[q].land = "Fortress"}

\* the requested locations clamped to 2 .. Stencil::max_locs
ClampedLocs(o) == Min(Max(o.locations, 2), max_locs(o.shape))

\* C37 as stated: the map State::new has built holds exactly num Fortresses
\* (num the requested locations clamped to 2 .. the maximum of the stencil),
\* each owned by a different non-neutral player and holding exactly 10 units
\* of its owner; no other habitable tile has an owner or units; with one
\* client player 1 owns exactly one of them
C37_AsStated ==
  pc.ph = "built" =>
    /\ Cardinality(Fortresses) = ClampedLocs(pc.b_opt)
    /\ \A q \in Fortresses :
         /\ grid[q].owner # NEUTRAL
         /\ \A p \in RealPlayers : grid[q].units[p] = (IF p = grid[q].owner THEN 10 ELSE 0)
    /\ \A q \in Fortresses, r \in Fortresses : q # r => grid[q].owner # grid[r].owner
    /\ \A q \in HabitableTiles \ Fortresses :
         grid[q].owner = NEUTRAL /\ \A p \in RealPlayers : grid[q].units[p] = 0
    /\ clients = 1 => Cardinality({q \in Fortresses : grid[q].owner = 1}) = 1


(***************************************************************************)
(* The frames the lobby admits.                                            *)
(***************************************************************************)
CONNECT == 1

\* C38 as stated: in the lobby a frame whose message byte is not CONNECT
\* creates no client record and does not end the lobby
C38_AsStated ==
  [][(srv.at = "lobby" /\ Len(sock'.inbox) < Len(sock.inbox)
        /\ ~(Len(srv'.frame.bytes) >= 1 /\ srv'.frame.bytes[1] = CONNECT)) =>
       (cl' = cl /\ srv'.at = "lobby")]_vars


(***************************************************************************)
(* The values of the kings against the grid they are used on.              *)
(***************************************************************************)
\* every king's values are those King::evaluate computes from the grid
ValuesFresh(g, ks) == \A n \in DOMAIN ks : ks[n].values = evaluate(g, ks[n].strategy)

\* C40 as stated: between two operations, where the next place_flags and
\* King::build start, the values of every king are the evaluation of the grid
\* as it is: every change of a land level was followed by a re-evaluation
C40_AsStated == pc.ph = "idle" => ValuesFresh(grid, kings)

====
